---- MODULE Spec2Model ----
(***************************************************************************)
(* Product lookup of the barcode scanner application.                      *)
(*                                                                         *)
(*   Spec   the resolution pipeline fetchProductByBarcode, in its two      *)
(*          multi-source versions: "A" is src/src/utils/api.js (primary    *)
(*          source with a retry loop, then one fallback whose data is      *)
(*          merged), "B" is src/unnamed/part_004 lines 248-328 (three      *)
(*          sources tried once each, first useful record returned).        *)
(*   SpecLive  Spec with every enabled step eventually taken: the code of  *)
(*          an invocation runs on, and every request in flight settles.    *)
(*   SpecF  the helpers on their own: validateBarcode, mergeProductData,   *)
(*          checkMissingFields / checkAvailableFields, one call each.      *)
(*   SpecT  one request of version A: fetchWithTimeout, its timer, and the *)
(*          reading of the response body by the caller.                    *)
(*   SpecApp  the App component of src/src/App.js: scans, lookups in       *)
(*          progress, the error shown, Retry and Dismiss.                  *)
(*   SpecScan  the scanner component (src/src/components/BarcodeScanner.js  *)
(*          and src/unnamed/part_002): its Html5Qrcode instances, start,   *)
(*          stop, decodes, the cleanup effect, and the parent as the       *)
(*          component sees it.                                             *)
(*   SpecProxy  the serverless proxy handler (src/unnamed/part_005 and     *)
(*          the version printed in src/DEPLOYMENT.md): one request.        *)
(*   SpecEntry  the two places an input enters: the App component, and a   *)
(*          direct call of fetchProductByBarcode up to its first await.    *)
(***************************************************************************)
EXTENDS Integers, Sequences, FiniteSets, TLC

(***************************************************************************)
(* JavaScript values.  Every field value is a tuple of strings so that any *)
(* two of them can be compared: null/undefined, the empty string, or a     *)
(* non-empty string.                                                       *)
(***************************************************************************)
Null == <<"null">>
Empty == <<"">>

\* JavaScript truthiness of a field value: null, undefined and "" are falsy.
Truthy(v) == v # Null /\ v # Empty

\* a || b
Or(a, b) == IF Truthy(a) THEN a ELSE b

(***************************************************************************)
(* Bounds of the enumerated inputs.                                        *)
(***************************************************************************)
\* largest number of keys a source's JSON payload sets
MaxPopulated == 2

\* largest number of keys set in each record handed to mergeProductData alone
MaxMergeKeys == 1

\* longest barcode text before padding, and most spaces on each side of it
MaxLen == 15
MaxPad == 1

\* keys of the normalized product record
ProductKeys ==
    {"gtin", "gtin13", "gtin14", "upc", "name", "product_name", "title",
     "brand", "manufacturer", "description", "product_description",
     "image", "product_image", "image_url", "price", "price_amount",
     "category"}

\* the record with no key set
NoProduct == [k \in ProductKeys |-> Null]

\* Assignments of values to `keys`: at most n keys are set, at most one of
\* the set keys holds the empty string, the others hold the non-empty
\* string `src` (one string per provider, so that a value in a result tells
\* which provider supplied it).
Records(src, keys, n) ==
    { [k \in keys |-> IF k \notin S THEN Null
                      ELSE IF k = e THEN Empty ELSE <<src>>] :
        S \in {T \in SUBSET keys : Cardinality(T) <= n},
        e \in keys \cup {"none"} }

Payloads(src, keys) == Records(src, keys, MaxPopulated)

(***************************************************************************)
(* Payloads of the three providers.  An array-valued key (title, images,   *)
(* features, ...) is given by its first element; Null stands for an absent *)
(* or empty array.                                                         *)
(***************************************************************************)
\* keys read from a Big Product Data response { gtin, properties, stores }
StructKeys ==
    {"gtin", "title", "brand", "manufacturer", "description",
     "store_image", "price_price", "price_sale", "price_list"}

\* keys read from a product of the RapidAPI Barcodes Lookup response
FallbackKeys ==
    {"title", "name", "product_name", "brand", "manufacturer", "description",
     "product_description", "features", "images", "image", "image_url",
     "store_price", "price", "price_amount", "category", "product_category"}

\* keys read from products[0] of the barcodelookup.com response
LookupKeys ==
    {"barcode_number", "title", "product_name", "name", "brand",
     "manufacturer", "description", "product_description", "images",
     "image", "image_url", "price", "price_amount", "category",
     "product_category"}

\* JSON bodies the Big Product Data endpoint can answer with: the
\* documented { gtin, properties, stores } shape ...
StructuredPayloads ==
    {[shape |-> "structured", body |-> b] :
        b \in {c \in Payloads("P", StructKeys) : Truthy(c["gtin"])}}

\* ... or null, [], or an object of some other shape
\* the object { title: "Widget", images: ["http://x/1.jpg"] } as a flat
\* Big Product Data body (nothing reads the images key of such a body) ...
WidgetFlat == [k \in ProductKeys |-> IF k = "title" THEN <<"Widget">> ELSE Null]

UnstructuredPayloads ==
    {[shape |-> "null", body |-> NoProduct],
     [shape |-> "emptyArray", body |-> NoProduct]}
    \cup {[shape |-> "flat", body |-> b] : b \in Payloads("P", ProductKeys)}
    \cup {[shape |-> "flat", body |-> WidgetFlat]}

\* JSON bodies of the RapidAPI Barcodes Lookup endpoint
FallbackPayloads ==
    {[shape |-> "null", body |-> [k \in FallbackKeys |-> Null]]}
    \cup {[shape |-> "product", body |-> b] : b \in Payloads("F", FallbackKeys)}

\* JSON bodies of the barcodelookup.com proxy: products empty or one product
\* ... and as products[0] of the barcodelookup.com response
WidgetProduct ==
    [k \in LookupKeys |-> CASE k = "title" -> <<"Widget">>
                            [] k = "images" -> <<"http://x/1.jpg">>
                            [] OTHER -> Null]

LookupPayloads ==
    {[shape |-> "noProducts", body |-> [k \in LookupKeys |-> Null]]}
    \cup {[shape |-> "product", body |-> b] : b \in Payloads("L", LookupKeys)}
    \cup {[shape |-> "product", body |-> WidgetProduct]}

(***************************************************************************)
(* Normalizers.  A normalizer returns [error, data]: error is "none" or    *)
(* the message it throws, data is the record or NoProduct for null.        *)
(***************************************************************************)
\* normalizeProductData taking the sale price, then the list price, then
\* the plain price
normalizeProductData_SaleFirst(data) ==
    CASE data.shape = "null" -> [error |-> "noData", isNull |-> TRUE, data |-> NoProduct]
      [] data.shape = "emptyArray" ->
            [error |-> "notFoundEmpty", isNull |-> TRUE, data |-> NoProduct]
      [] data.shape = "structured" ->
            LET b == data.body
                image == IF Truthy(b["store_image"]) THEN b["store_image"] ELSE Null
                price == Or(Or(b["price_sale"], b["price_list"]), b["price_price"])
            IN [error |-> "none", isNull |-> FALSE,
                data |-> [k \in ProductKeys |->
                    CASE k \in {"gtin", "gtin13", "gtin14", "upc"} -> b["gtin"]
                      [] k \in {"name", "product_name", "title"} -> b["title"]
                      [] k = "brand" -> b["brand"]
                      [] k = "manufacturer" -> b["manufacturer"]
                      [] k \in {"description", "product_description"} -> b["description"]
                      [] k \in {"image", "product_image", "image_url"} -> image
                      [] k \in {"price", "price_amount"} -> price
                      [] OTHER -> Null]]
      [] OTHER -> [error |-> "none", isNull |-> FALSE, data |-> data.body]

normalizeProductData(data) ==
    CASE data.shape = "null" -> [error |-> "noData", isNull |-> TRUE, data |-> NoProduct]
      [] data.shape = "emptyArray" ->
            [error |-> "notFoundEmpty", isNull |-> TRUE, data |-> NoProduct]
      [] data.shape = "structured" ->
            LET b == data.body
                image == IF Truthy(b["store_image"]) THEN b["store_image"] ELSE Null
                price == Or(Or(b["price_price"], b["price_sale"]), b["price_list"])
            IN [error |-> "none", isNull |-> FALSE,
                data |-> [k \in ProductKeys |->
                    CASE k \in {"gtin", "gtin13", "gtin14", "upc"} -> b["gtin"]
                      [] k \in {"name", "product_name", "title"} -> b["title"]
                      [] k = "brand" -> b["brand"]
                      [] k = "manufacturer" -> b["manufacturer"]
                      [] k \in {"description", "product_description"} -> b["description"]
                      [] k \in {"image", "product_image", "image_url"} -> image
                      [] k \in {"price", "price_amount"} -> price
                      [] OTHER -> Null]]
      [] OTHER -> [error |-> "none", isNull |-> FALSE, data |-> data.body]

\* normalizeFallbackData preferring product.name to product.title
normalizeFallbackData_NameFirst(data, code) ==
    IF data.shape = "null" THEN [error |-> "none", isNull |-> TRUE, data |-> NoProduct]
    ELSE
    LET product == data.body
        price == Or(product["store_price"], Null)
        image == product["images"]
        description ==
            IF ~Truthy(product["description"]) /\ product["features"] # Null
            THEN product["features"] ELSE product["description"]
        name == Or(Or(Or(product["name"], product["title"]), product["product_name"]), Null)
        desc == Or(Or(description, product["product_description"]), Null)
        img == Or(Or(Or(image, product["image"]), product["image_url"]), Null)
        prc == Or(Or(Or(price, product["price"]), product["price_amount"]), Null)
    IN [error |-> "none", isNull |-> FALSE,
        data |-> [k \in ProductKeys |->
            CASE k \in {"gtin", "gtin13", "gtin14", "upc"} -> code
              [] k \in {"name", "product_name", "title"} -> name
              [] k = "brand" -> Or(Or(product["brand"], product["manufacturer"]), Null)
              [] k = "manufacturer" -> Or(Or(product["manufacturer"], product["brand"]), Null)
              [] k \in {"description", "product_description"} -> desc
              [] k \in {"image", "product_image", "image_url"} -> img
              [] k \in {"price", "price_amount"} -> prc
              [] OTHER -> Or(Or(product["category"], product["product_category"]), Null)]]

normalizeFallbackData(data, code) ==
    IF data.shape = "null" THEN [error |-> "none", isNull |-> TRUE, data |-> NoProduct]
    ELSE
    LET product == data.body
        price == Or(product["store_price"], Null)
        image == product["images"]
        description ==
            IF ~Truthy(product["description"]) /\ product["features"] # Null
            THEN product["features"] ELSE product["description"]
        name == Or(Or(Or(product["title"], product["name"]), product["product_name"]), Null)
        desc == Or(Or(description, product["product_description"]), Null)
        img == Or(Or(Or(image, product["image"]), product["image_url"]), Null)
        prc == Or(Or(Or(price, product["price"]), product["price_amount"]), Null)
    IN [error |-> "none", isNull |-> FALSE,
        data |-> [k \in ProductKeys |->
            CASE k \in {"gtin", "gtin13", "gtin14", "upc"} -> code
              [] k \in {"name", "product_name", "title"} -> name
              [] k = "brand" -> Or(Or(product["brand"], product["manufacturer"]), Null)
              [] k = "manufacturer" -> Or(Or(product["manufacturer"], product["brand"]), Null)
              [] k \in {"description", "product_description"} -> desc
              [] k \in {"image", "product_image", "image_url"} -> img
              [] k \in {"price", "price_amount"} -> prc
              [] OTHER -> Or(Or(product["category"], product["product_category"]), Null)]]

\* normalizeBarcodeLookupData without the images array
normalizeBarcodeLookupData_NoImagesArray(product, code) ==
    LET name == Or(Or(Or(product["title"], product["product_name"]), product["name"]), Null)
        image == Or(Or(product["image"], product["image_url"]), Null)
    IN [k \in ProductKeys |->
        CASE k \in {"gtin", "gtin13", "gtin14", "upc"} -> Or(product["barcode_number"], code)
          [] k \in {"name", "product_name", "title"} -> name
          [] k = "brand" -> Or(Or(product["brand"], product["manufacturer"]), Null)
          [] k = "manufacturer" -> Or(Or(product["manufacturer"], product["brand"]), Null)
          [] k \in {"description", "product_description"} ->
                Or(Or(product["description"], product["product_description"]), Null)
          [] k \in {"image", "product_image", "image_url"} -> image
          [] k \in {"price", "price_amount"} -> Or(Or(product["price"], product["price_amount"]), Null)
          [] OTHER -> Or(Or(product["category"], product["product_category"]), Null)]

normalizeBarcodeLookupData(product, code) ==
    LET name == Or(Or(Or(product["title"], product["product_name"]), product["name"]), Null)
        image == IF product["images"] # Null THEN product["images"]
                 ELSE Or(Or(product["image"], product["image_url"]), Null)
    IN [k \in ProductKeys |->
        CASE k \in {"gtin", "gtin13", "gtin14", "upc"} -> Or(product["barcode_number"], code)
          [] k \in {"name", "product_name", "title"} -> name
          [] k = "brand" -> Or(Or(product["brand"], product["manufacturer"]), Null)
          [] k = "manufacturer" -> Or(Or(product["manufacturer"], product["brand"]), Null)
          [] k \in {"description", "product_description"} ->
                Or(Or(product["description"], product["product_description"]), Null)
          [] k \in {"image", "product_image", "image_url"} -> image
          [] k \in {"price", "price_amount"} -> Or(Or(product["price"], product["price_amount"]), Null)
          [] OTHER -> Or(Or(product["category"], product["product_category"]), Null)]

(***************************************************************************)
(* Merge and completeness analysis.                                        *)
(***************************************************************************)
\* keys mergeProductData assigns; the others are copied from the primary
MergedKeys == ProductKeys \ {"gtin", "gtin13", "gtin14", "upc"}

\* a merge that ignores the fallback
mergeProductData_PrimaryOnly(primary, fallback) == primary

\* a merge in which the fallback's value wins
mergeProductData_FallbackFirst(primary, fallback) ==
    [k \in ProductKeys |->
        IF k \in MergedKeys THEN Or(Or(fallback[k], primary[k]), Null)
        ELSE primary[k]]

\* a merge that takes the primary's value unless it is null (?? for ||)
mergeProductData_NullishOnly(primary, fallback) ==
    [k \in ProductKeys |->
        IF k \in MergedKeys
        THEN IF primary[k] # Null THEN primary[k] ELSE fallback[k]
        ELSE primary[k]]

\* a merge that takes the gtin key from the fallback record
mergeProductData_FallbackGtin(primary, fallback) ==
    [k \in ProductKeys |->
        IF k \in MergedKeys THEN Or(Or(primary[k], fallback[k]), Null)
        ELSE IF k = "gtin" THEN Or(fallback[k], primary[k])
        ELSE primary[k]]

mergeProductData(primary, fallback) ==
    [k \in ProductKeys |->
        IF k \in MergedKeys THEN Or(Or(primary[k], fallback[k]), Null)
        ELSE primary[k]]

\* sequence s with x appended when cond holds (if (cond) s.push(x))
PushIf(s, cond, x) == IF cond THEN Append(s, x) ELSE s

\* an analysis that does not know the title alias and lists price first
checkMissingFields_NoTitle(data) ==
    LET m0 == PushIf(<<>>, ~Truthy(data["price"]) /\ ~Truthy(data["price_amount"]), "price")
        m1 == PushIf(m0, ~Truthy(data["name"]) /\ ~Truthy(data["product_name"]), "name")
        m2 == PushIf(m1, ~Truthy(data["image"]) /\ ~Truthy(data["product_image"])
                            /\ ~Truthy(data["image_url"]), "image")
        m3 == PushIf(m2, ~Truthy(data["brand"]) /\ ~Truthy(data["manufacturer"]), "brand")
    IN PushIf(m3, ~Truthy(data["description"])
                            /\ ~Truthy(data["product_description"]), "description")

checkMissingFields(data) ==
    LET m1 == PushIf(<<>>, ~Truthy(data["name"]) /\ ~Truthy(data["product_name"])
                            /\ ~Truthy(data["title"]), "name")
        m2 == PushIf(m1, ~Truthy(data["image"]) /\ ~Truthy(data["product_image"])
                            /\ ~Truthy(data["image_url"]), "image")
        m3 == PushIf(m2, ~Truthy(data["brand"]) /\ ~Truthy(data["manufacturer"]), "brand")
        m4 == PushIf(m3, ~Truthy(data["description"])
                            /\ ~Truthy(data["product_description"]), "description")
    IN PushIf(m4, ~Truthy(data["price"]) /\ ~Truthy(data["price_amount"]), "price")

checkAvailableFields(data) ==
    LET a1 == PushIf(<<>>, Truthy(data["name"]) \/ Truthy(data["product_name"])
                            \/ Truthy(data["title"]), "name")
        a2 == PushIf(a1, Truthy(data["image"]) \/ Truthy(data["product_image"])
                            \/ Truthy(data["image_url"]), "image")
        a3 == PushIf(a2, Truthy(data["brand"]) \/ Truthy(data["manufacturer"]), "brand")
        a4 == PushIf(a3, Truthy(data["description"])
                            \/ Truthy(data["product_description"]), "description")
    IN PushIf(a4, Truthy(data["price"]) \/ Truthy(data["price_amount"]), "price")

\* the product handed to the caller: the record and, where the code sets
\* them, missingFields / availableFields / hasIncompleteData
WithMeta(data) ==
    [data |-> data, hasMeta |-> TRUE,
     missingFields |-> checkMissingFields(data),
     availableFields |-> checkAvailableFields(data),
     hasIncompleteData |-> Len(checkMissingFields(data)) > 0]

WithoutMeta(data) ==
    [data |-> data, hasMeta |-> FALSE, missingFields |-> <<>>,
     availableFields |-> <<>>, hasIncompleteData |-> FALSE]

(***************************************************************************)
(* Errors and responses.                                                   *)
(***************************************************************************)
\* retries = 2, the default parameter of fetchProductByBarcode
retries == 2

\* an Error object: its name and its message (by kind, with the HTTP status
\* the message quotes, 0 when it quotes none)
Err(name, kind, status) == [name |-> name, kind |-> kind, status |-> status]
NoError == Err("none", "none", 0)

\* HTTP statuses of failed responses: malformed request, authentication,
\* not found, rate limit, server errors
ErrorStatuses == {400, 401, 403, 404, 429, 500, 503}

\* How a call can end without a JSON body: the timer aborts it, the
\* transport fails (a TypeError whose message mentions "fetch" in some
\* browsers and not in others), a non-2xx status, or a 2xx body that does
\* not parse.
Failures ==
    {[kind |-> k, status |-> 0] : k \in {"timeout", "networkFetch", "networkOther", "badJson"}}
    \cup {[kind |-> "http", status |-> st] : st \in ErrorStatuses}

\* a 2xx response whose body parsed as JSON
OkResponse == [kind |-> "ok", status |-> 200]

\* a transient condition: timeout, transport error, upstream 5xx
IsTransient(o) ==
    o.kind \in {"timeout", "networkFetch", "networkOther"}
    \/ (o.kind = "http" /\ o.status >= 500)

\* every failed response reported as the no-data error
PrimaryError_AllNoData(o) == Err("Error", "productNotFound", 0)

\* what fetchWithTimeout and the status checks of the primary call throw
\* for a failed response
PrimaryError(o) ==
    CASE o.kind = "timeout" -> Err("Error", "timeout", 0)
      [] o.kind = "networkFetch" -> Err("TypeError", "networkFetch", 0)
      [] o.kind = "networkOther" -> Err("TypeError", "networkOther", 0)
      [] o.kind = "badJson" -> Err("Error", "invalidResponse", 0)
      [] o.status = 404 -> Err("Error", "notFound404", 0)
      [] o.status \in {401, 403} -> Err("Error", "invalidApiKey", 0)
      [] o.status = 429 -> Err("Error", "rateLimit", 0)
      [] o.status >= 500 -> Err("Error", "serverError", o.status)
      [] OTHER -> Err("Error", "apiError", o.status)

\* an empty "don't retry" list
NoRetry_Never(error) == FALSE

\* a "don't retry" list that also holds the 'API Error' of the other statuses
NoRetry_AlsoApiError(error) ==
    \/ error.kind \in {"apiKeyMissing", "invalidApiKey", "rateLimit",
                       "notFound404", "notFoundEmpty", "apiError"}
    \/ error.status \in {404, 401, 403}

\* error.message.includes(...) of the "don't retry" list: 'API key',
\* 'Rate limit', 'Product not found', '404', '401', '403'
NoRetry(error) ==
    \/ error.kind \in {"apiKeyMissing", "invalidApiKey", "rateLimit",
                       "notFound404", "notFoundEmpty"}
    \/ error.status \in {404, 401, 403}

\* a catch block that rethrows whatever it catches
HandleError_NoRetry(error, tries) == [rethrow |-> TRUE, error |-> error]

\* a catch block that gives up one iteration later
HandleError_OneMore(error, tries) ==
    IF NoRetry(error) \/ tries = retries + 1
    THEN [rethrow |-> TRUE, error |-> error]
    ELSE [rethrow |-> FALSE, error |-> error]

\* a catch block that rethrows the last attempt's error as it caught it
HandleError_Unexplained(error, tries) ==
    IF NoRetry(error) \/ tries = retries
    THEN [rethrow |-> TRUE, error |-> error]
    ELSE [rethrow |-> FALSE, error |-> error]

\* the catch block of the retry loop: rethrow (possibly reworded) or go on
\* to the next iteration
HandleError(error, tries) ==
    LET timedOut == error.kind = "timeout"
        fetchFailed == error.name = "TypeError" /\ error.kind = "networkFetch"
    IN CASE NoRetry(error) -> [rethrow |-> TRUE, error |-> error]
         [] (timedOut \/ fetchFailed) /\ tries < retries ->
                [rethrow |-> FALSE, error |-> error]
         [] error.kind = "serverError" /\ tries < retries ->
                [rethrow |-> FALSE, error |-> error]
         [] tries = retries ->
                [rethrow |-> TRUE,
                 error |-> CASE timedOut -> Err("Error", "timeoutExplained", 0)
                             [] fetchFailed -> Err("Error", "networkExplained", 0)
                             [] OTHER -> error]
         [] OTHER -> [rethrow |-> FALSE, error |-> error]

\* normalized.name || normalized.product_name || normalized.image || normalized.manufacturer
FallbackUseful(data) ==
    Truthy(data["name"]) \/ Truthy(data["product_name"])
    \/ Truthy(data["image"]) \/ Truthy(data["manufacturer"])

\* fetchFromFallbackAPI: the normalized record, or null for a failed call,
\* a body that is not JSON, or a record with nothing useful
fetchFromFallbackAPI(o, payload, code) ==
    IF o.kind # "ok" THEN [isNull |-> TRUE, data |-> NoProduct]
    ELSE LET n == normalizeFallbackData(payload, code)
         IN IF ~n.isNull /\ FallbackUseful(n.data)
            THEN [isNull |-> FALSE, data |-> n.data]
            ELSE [isNull |-> TRUE, data |-> NoProduct]

\* a test that every record passes
HasIdentifierOrName_Always(data) == TRUE

\* normalizedData.gtin || normalizedData.upc || normalizedData.name || normalizedData.product_name
HasIdentifierOrName(data) ==
    Truthy(data["gtin"]) \/ Truthy(data["upc"])
    \/ Truthy(data["name"]) \/ Truthy(data["product_name"])

\* missingFields.includes(name label) || missingFields.includes(image label)
InSeq(x, s) == \E i \in 1..Len(s) : s[i] = x
\* a test that asks for the name label only
CriticalMissing_NameOnly(missing) == InSeq("name", missing)

CriticalMissing(missing) == InSeq("name", missing) \/ InSeq("image", missing)

(***************************************************************************)
(* The resolution pipeline.                                                *)
(***************************************************************************)
Digits == {"0", "1", "2", "3", "4", "5", "6", "7", "8", "9"}

IsGtinFormat_UpToThirteen(code) ==
    Len(code) >= 8 /\ Len(code) <= 13
    /\ \A i \in 1..Len(code) : code[i] \in Digits

\* /^\d{8,14}$/.test(barcode)
IsGtinFormat(code) ==
    Len(code) >= 8 /\ Len(code) <= 14
    /\ \A i \in 1..Len(code) : code[i] \in Digits

\* barcodes resolve is invoked with: one of valid format, one not
Barcodes ==
    {<<"8", "5", "0", "0", "2", "8", "0", "0", "9", "3", "3", "8">>,
     <<"1", "2", "a">>}

Sources == {"barcodeLookup", "bigProductData", "barcodesLookup"}

\* Every way a request to the RapidAPI Barcodes Lookup source can settle,
\* with what fetchFromFallbackAPI returns for it.
FallbackSettlements ==
    {[barcode |-> b, kind |-> o.kind, status |-> o.status,
      fb |-> fetchFromFallbackAPI(o, CHOOSE p \in FallbackPayloads : TRUE, b)] :
        b \in Barcodes, o \in Failures}
    \cup {[barcode |-> b, kind |-> OkResponse.kind, status |-> OkResponse.status,
           fb |-> fetchFromFallbackAPI(OkResponse, p, b)] :
        b \in Barcodes, p \in FallbackPayloads}

\* normalized.name || normalized.product_name || normalized.image || normalized.brand
LookupUseful(data) ==
    Truthy(data["name"]) \/ Truthy(data["product_name"])
    \/ Truthy(data["image"]) \/ Truthy(data["brand"])

\* fetchFromBarcodeLookupAPI: the normalized first product, or null for a
\* failed call, an empty products array, or a record with nothing useful
fetchFromBarcodeLookupAPI(o, payload, code) ==
    IF o.kind # "ok" \/ payload.shape = "noProducts"
    THEN [isNull |-> TRUE, data |-> NoProduct]
    ELSE LET n == normalizeBarcodeLookupData(payload.body, code)
         IN IF LookupUseful(n) THEN [isNull |-> FALSE, data |-> n]
            ELSE [isNull |-> TRUE, data |-> NoProduct]

\* Every way a request to the barcodelookup.com proxy can settle, with what
\* fetchFromBarcodeLookupAPI returns for it.
LookupSettlements ==
    {[barcode |-> b, kind |-> o.kind, status |-> o.status,
      fb |-> fetchFromBarcodeLookupAPI(o, CHOOSE p \in LookupPayloads : TRUE, b)] :
        b \in Barcodes, o \in Failures}
    \cup {[barcode |-> b, kind |-> OkResponse.kind, status |-> OkResponse.status,
           fb |-> fetchFromBarcodeLookupAPI(OkResponse, p, b)] :
        b \in Barcodes, p \in LookupPayloads}

\* Every 2xx JSON response of the Big Product Data source, normalized.
PrimaryOkSettlements ==
    {normalizeProductData(p) : p \in StructuredPayloads}
    \cup {normalizeProductData(p) : p \in UnstructuredPayloads}

(***************************************************************************)
(* The barcode validator (src/unnamed/part_003).  A string is the sequence *)
(* of its characters; Null stands for a value that is not a string.        *)
(***************************************************************************)
BARCODE_MIN_LENGTH == 8
BARCODE_MAX_LENGTH == 14

\* a trim that removes nothing
Trim_Identity(s) == s

\* barcode.trim(): the text between the first and the last non-space
Trim(s) ==
    LET idx == {i \in 1..Len(s) : s[i] # " "}
    IN IF idx = {} THEN <<>>
       ELSE SubSeq(s, CHOOSE i \in idx : \A j \in idx : i <= j,
                      CHOOSE i \in idx : \A j \in idx : i >= j)

\* a validator without the test for an empty trimmed text
validateBarcode_NoEmptyCheck(text) ==
    IF text = Null \/ text = <<>>
    THEN [valid |-> FALSE, error |-> "required", value |-> Null]
    ELSE IF Len(Trim(text)) < BARCODE_MIN_LENGTH \/ Len(Trim(text)) > BARCODE_MAX_LENGTH
    THEN [valid |-> FALSE, error |-> "length", value |-> Null]
    ELSE IF ~(\A i \in 1..Len(Trim(text)) : Trim(text)[i] \in Digits)
    THEN [valid |-> FALSE, error |-> "numeric", value |-> Null]
    ELSE [valid |-> TRUE, error |-> "null", value |-> Trim(text)]

\* a validator that hands back the text as it was typed
validateBarcode_RawValue(text) ==
    IF text = Null \/ text = <<>>
    THEN [valid |-> FALSE, error |-> "required", value |-> Null]
    ELSE IF Len(Trim(text)) = 0
    THEN [valid |-> FALSE, error |-> "empty", value |-> Null]
    ELSE IF Len(Trim(text)) < BARCODE_MIN_LENGTH \/ Len(Trim(text)) > BARCODE_MAX_LENGTH
    THEN [valid |-> FALSE, error |-> "length", value |-> Null]
    ELSE IF ~(\A i \in 1..Len(Trim(text)) : Trim(text)[i] \in Digits)
    THEN [valid |-> FALSE, error |-> "numeric", value |-> Null]
    ELSE [valid |-> TRUE, error |-> "null", value |-> text]

\* a validator that looks at the characters before it looks at the length
validateBarcode_DigitsFirst(text) ==
    IF text = Null \/ text = <<>>
    THEN [valid |-> FALSE, error |-> "required", value |-> Null]
    ELSE IF ~(\A i \in 1..Len(text) : text[i] \in Digits)
    THEN [valid |-> FALSE, error |-> "numeric", value |-> Null]
    ELSE IF Len(text) < BARCODE_MIN_LENGTH \/ Len(text) > BARCODE_MAX_LENGTH
    THEN [valid |-> FALSE, error |-> "length", value |-> Null]
    ELSE [valid |-> TRUE, error |-> "null", value |-> text]

validateBarcode(text) ==
    IF text = Null \/ text = <<>>
    THEN [valid |-> FALSE, error |-> "required", value |-> Null]
    ELSE LET trimmed == Trim(text)
         IN IF Len(trimmed) = 0
            THEN [valid |-> FALSE, error |-> "empty", value |-> Null]
            ELSE IF Len(trimmed) < BARCODE_MIN_LENGTH \/ Len(trimmed) > BARCODE_MAX_LENGTH
            THEN [valid |-> FALSE, error |-> "length", value |-> Null]
            ELSE IF ~(\A i \in 1..Len(trimmed) : trimmed[i] \in Digits)
            THEN [valid |-> FALSE, error |-> "numeric", value |-> Null]
            ELSE [valid |-> TRUE, error |-> "null", value |-> trimmed]

\* Texts handed to the validator: up to MaxLen characters, all the digit 7
\* but for at most one that is another digit, a letter or a space, with up
\* to MaxPad spaces before and after; and a value that is not a string.
Bodies ==
    UNION {{[i \in 1..n |-> "7"]}
           \cup {[i \in 1..n |-> IF i = q THEN c ELSE "7"] :
                    q \in 1..n, c \in {"0", "a", " "}} : n \in 0..MaxLen}

Pad(n) == [i \in 1..n |-> " "]

Texts ==
    {Pad(l) \o b \o Pad(r) : l \in 0..MaxPad, r \in 0..MaxPad, b \in Bodies}
    \cup {Null}

\* Records handed to the completeness analysis: few keys set, or few not set
AnalysisRecords ==
    Payloads("P", ProductKeys)
    \cup {[k \in ProductKeys |-> IF r[k] = Null THEN <<"P">> ELSE Null] :
            r \in Payloads("P", ProductKeys)}

\* Records in which each key of `probed` is absent, "" or a string of its
\* own (the key's name, so that a result tells which key supplied it), and
\* each key of `given` holds a string of its own
Tagged(keys, probed, given) ==
    {[k \in keys |->
        IF k \in probed
        THEN CASE f[k] = "absent" -> Null
               [] f[k] = "empty" -> Empty
               [] OTHER -> <<k>>
        ELSE IF k \in given THEN <<k>> ELSE Null] :
            f \in [probed -> {"absent", "empty", "set"}]}

\* the candidates of the name and of the price, per provider
NameKeys == {"title", "name", "product_name"}
StructPriceKeys == {"price_price", "price_sale", "price_list"}
FallbackPriceKeys == {"store_price", "price", "price_amount"}
LookupPriceKeys == {"price", "price_amount"}

\* Response bodies handed to the three normalizers
NormalizerInputs ==
    [normalizeProductData |->
        {[shape |-> "structured", body |-> b] :
            b \in Tagged(StructKeys, {"title"} \cup StructPriceKeys, {"gtin"})}
        \cup UnstructuredPayloads,
     normalizeFallbackData |->
        {[shape |-> "product", body |-> b] :
            b \in Tagged(FallbackKeys, NameKeys, {})
                  \cup Tagged(FallbackKeys, FallbackPriceKeys, {})},
     normalizeBarcodeLookupData |->
        {[shape |-> "product", body |-> b] :
            b \in Tagged(LookupKeys, NameKeys, {})
                  \cup Tagged(LookupKeys, LookupPriceKeys \cup {"barcode_number"}, {})}]

\* Pairs of records handed to mergeProductData
MergePairs ==
    Records("P", ProductKeys, MaxMergeKeys) \X Records("F", ProductKeys, MaxMergeKeys)

VARIABLES
    op,             \* the helper applied: its name, or "none"
    input,          \* the argument(s) of the helper
    output,         \* <<what it returned>>; <<>> before the call
    variant,        \* which fetchProductByBarcode runs: "A" or "B"
    apiKey,         \* process.env.REACT_APP_RAPIDAPI_KEY is set
    barcode,        \* the argument of fetchProductByBarcode
    pc,             \* where the invocation stands
    attempt,        \* loop variable of the retry loop
    calls,          \* number of requests issued so far, per source
    last,           \* source and outcome of the request that settled last
    onlyTransient,  \* per source: every settled request failed transiently
    backoff,        \* the waits of the retry loop so far, in ms
    primaryData,    \* the record fetchFromBarcodeLookupAPI returned
    normalizedData, \* the normalized record of Big Product Data
    fallbackData,   \* the record fetchFromFallbackAPI returned last
    result,         \* how the promise settled
    settled,        \* number of requests that have settled so far, per source
    \* one call of fetchWithTimeout and the reading of the body after it
    timer,          \* timeoutId: "unset", "armed", "cleared" or "fired"
    phase,          \* "none", "pending", "body", "read" or "rejected"
    clock,          \* milliseconds since fetchWithTimeout was called
    site,           \* the awaiting caller
    answer,         \* the response received, or the error thrown
    \* the App component
    productData,    \* state productData: <<>> for null
    loading,        \* state loading
    appError,       \* state error: <<>> for null
    scanning,       \* state scanning
    lastBarcodeRef, \* lastBarcodeRef.current: <<>> for null
    lookups,        \* the calls of fetchProductByBarcode made so far
    event,          \* the handler that ran last: its name, the error shown and the
                    \* number of lookups made when it was called
    isMobile,             \* the scanner component runs on a mobile device
    html5QrCodeRef,       \* number of the Html5Qrcode instance referenced, 0 for null
    isScannerRunningRef,  \* the flag startScanning tests
    instances,            \* the Html5Qrcode instances created so far: their states
    cameraError,          \* a camera error is shown by the scanner component
    seenScanning,         \* value of scanning the cleanup effect last ran for
    cleanupTimer,         \* instance the 300 ms cleanup timer will clear, 0 when unset
    sessionScans,         \* onScan calls from decodes since the last successful start
    parentPending,        \* lookups the parent started from onScan, not yet settled
    req,                  \* the request the proxy handler received
    proxyPc,              \* where the proxy handler stands
    upstreamCalls,        \* requests the proxy handler made to barcodelookup.com
    responses             \* statuses of the responses the proxy handler sent

helperVars == <<op, input, output>>
resolveVars == <<variant, apiKey, barcode, pc, attempt, backoff, calls, settled, last, onlyTransient,
                 primaryData, normalizedData, fallbackData, result>>
fetchVars == <<timer, phase, clock, site, answer>>
appVars == <<productData, loading, appError, scanning, lastBarcodeRef, lookups, event>>
scanVars == <<isMobile, html5QrCodeRef, isScannerRunningRef, instances, cameraError,
              seenScanning, cleanupTimer, sessionScans, parentPending>>
proxyVars == <<req, proxyPc, upstreamCalls, responses>>
otherVars == <<scanVars, proxyVars>>
vars == <<helperVars, resolveVars, fetchVars, appVars, otherVars>>

Pending == [status |-> "pending", product |-> WithoutMeta(NoProduct), error |-> NoError]
Resolved(product) == [status |-> "resolved", product |-> product, error |-> NoError]
Rejected(error) == [status |-> "rejected", product |-> WithoutMeta(NoProduct), error |-> error]

\* no helper is called on its own
NoCall == op = "none" /\ input = <<>> /\ output = <<>>

\* a fetchProductByBarcode invocation that has not started
Idle ==
    /\ pc = "idle"
    /\ attempt = 0
    /\ backoff = <<>>
    /\ calls = [s \in Sources |-> 0]
    /\ settled = [s \in Sources |-> 0]
    /\ last = [source |-> "none", kind |-> "none", status |-> 0]
    /\ onlyTransient = [s \in Sources |-> TRUE]
    /\ primaryData = NoProduct
    /\ normalizedData = NoProduct
    /\ fallbackData = NoProduct
    /\ result = Pending

\* the sources in the order fetchProductByBarcode consults them
Priority(v) ==
    IF v = "A" THEN <<"bigProductData", "barcodesLookup">>
    ELSE <<"barcodeLookup", "bigProductData", "barcodesLookup">>

\* requests to a source that were issued and have not settled
InFlight(s) == calls[s] - settled[s]

\* fetchWithTimeout has not been called
NoFetch ==
    /\ timer = "unset" /\ phase = "none" /\ clock = 0
    /\ site = "none" /\ answer = [kind |-> "none", status |-> 0]

\* the App component as mounted
NoApp ==
    /\ productData = <<>> /\ loading = FALSE /\ appError = <<>>
    /\ scanning = FALSE /\ lastBarcodeRef = <<>>
    /\ lookups = <<>>
    /\ event = [name |-> "mount", shown |-> <<>>, n |-> 0]

\* the scanner component as mounted, on a desktop, with no instance
NoScan ==
    /\ isMobile = FALSE /\ html5QrCodeRef = 0 /\ isScannerRunningRef = FALSE
    /\ instances = <<>> /\ cameraError = FALSE
    /\ seenScanning = FALSE /\ cleanupTimer = 0
    /\ sessionScans = 0 /\ parentPending = 0

\* the proxy handler has received no request
NoProxy ==
    /\ req = [method |-> "none", barcode |-> Null, version |-> "none"]
    /\ proxyPc = "idle" /\ upstreamCalls = 0 /\ responses = <<>>

Init ==
    /\ variant \in {"A", "B"}
    /\ apiKey \in BOOLEAN
    /\ barcode \in Barcodes
    /\ Idle
    /\ NoCall
    /\ NoFetch
    /\ NoApp /\ NoScan /\ NoProxy

\* Issue starting the requests to every source at once
Issue_Speculative(source) == calls' = [s \in Sources |-> calls[s] + 1]

Issue(source) == calls' = [calls EXCEPT ![source] = @ + 1]
Settle(source, o) ==
    /\ last' = [source |-> source, kind |-> o.kind, status |-> o.status]
    /\ settled' = [settled EXCEPT ![source] = @ + 1]
    /\ onlyTransient' = [onlyTransient EXCEPT ![source] = @ /\ IsTransient(o)]
Return(product) == pc' = "done" /\ result' = Resolved(product)
Throw(error) == pc' = "done" /\ result' = Rejected(error)

----------------------------------------------------------------------------
(* Version A: src/src/utils/api.js *)

\* A_Start with the format check moved before getApiKey()
A_Start_FormatFirst ==
    /\ variant = "A" /\ pc = "idle"
    /\ IF ~IsGtinFormat(barcode) THEN Throw(Err("Error", "invalidFormat", 0))
       ELSE IF ~apiKey THEN Throw(Err("Error", "apiKeyMissing", 0))
       ELSE pc' = "callPrimary" /\ UNCHANGED result
    /\ UNCHANGED <<op, input, output, variant, apiKey, barcode, attempt, calls, settled, last,
                   onlyTransient, primaryData, normalizedData, fallbackData>>
    /\ UNCHANGED <<backoff, fetchVars, appVars, otherVars>>

\* getApiKey(), the format check, and entry into the retry loop
A_Start ==
    /\ variant = "A" /\ pc = "idle"
    /\ IF ~apiKey THEN Throw(Err("Error", "apiKeyMissing", 0))
       ELSE IF ~IsGtinFormat(barcode) THEN Throw(Err("Error", "invalidFormat", 0))
       ELSE pc' = "callPrimary" /\ UNCHANGED result
    /\ UNCHANGED <<op, input, output, variant, apiKey, barcode, attempt, calls, settled, last,
                   onlyTransient, primaryData, normalizedData, fallbackData>>
    /\ UNCHANGED <<backoff, fetchVars, appVars, otherVars>>

\* the base of the backoff (the literal 1000 of the setTimeout), in ms
BaseDelay == 1000

\* a wait of one base delay before every retry
RetryDelay_Constant(k) == BaseDelay

\* the wait before retry number k: setTimeout(resolve, 1000 * attempt)
RetryDelay(k) == BaseDelay * k

\* one iteration of the loop up to the await of fetchWithTimeout (after the
\* backoff wait when attempt > 0); normalizedData and fallbackData are
\* constants of the iteration's block
A_CallPrimary ==
    /\ variant = "A" /\ pc = "callPrimary"
    /\ backoff' = IF attempt > 0 THEN Append(backoff, RetryDelay(attempt)) ELSE backoff
    /\ Issue("bigProductData")
    /\ pc' = "awaitPrimary"
    /\ normalizedData' = NoProduct
    /\ fallbackData' = NoProduct
    /\ UNCHANGED <<op, input, output, variant, apiKey, barcode, attempt, settled, last,
                   onlyTransient, primaryData, result>>
    /\ UNCHANGED <<fetchVars, appVars, otherVars>>

\* the catch block applied to a thrown error
Catch(error) ==
    LET d == HandleError(error, attempt)
    IN IF d.rethrow THEN Throw(d.error) /\ UNCHANGED attempt
       ELSE pc' = "callPrimary" /\ attempt' = attempt + 1 /\ UNCHANGED result

\* the primary request fails: timeout, transport error, non-2xx status or
\* unparsable body
A_PrimaryFails ==
    /\ variant = "A" /\ pc = "awaitPrimary"
    /\ \E o \in Failures :
        /\ Settle("bigProductData", o)
        /\ Catch(PrimaryError(o))
    /\ UNCHANGED <<op, input, output, variant, apiKey, barcode, calls, primaryData, normalizedData,
                   fallbackData>>
    /\ UNCHANGED <<backoff, fetchVars, appVars, otherVars>>

\* the primary request answers 2xx with a JSON body
A_PrimaryOk ==
    /\ variant = "A" /\ pc = "awaitPrimary"
    /\ \E n \in PrimaryOkSettlements :
        LET product == WithMeta(n.data)
        IN /\ Settle("bigProductData", OkResponse)
           /\ IF n.error # "none"
              THEN /\ Catch(Err("Error", n.error, 0))
                   /\ UNCHANGED <<calls, normalizedData>>
              ELSE IF HasIdentifierOrName(n.data)
              THEN /\ normalizedData' = n.data
                   /\ UNCHANGED attempt
                   /\ IF product.hasIncompleteData /\ CriticalMissing(product.missingFields)
                      THEN /\ Issue("barcodesLookup")
                           /\ pc' = "awaitFallbackMerge"
                           /\ UNCHANGED result
                      ELSE Return(product) /\ UNCHANGED calls
              ELSE /\ normalizedData' = n.data
                   /\ Issue("barcodesLookup")
                   /\ pc' = "awaitFallbackOnly"
                   /\ UNCHANGED <<attempt, result>>
    /\ UNCHANGED <<op, input, output, variant, apiKey, barcode, primaryData, fallbackData>>
    /\ UNCHANGED <<backoff, fetchVars, appVars, otherVars>>

\* A_FallbackSettles letting a fallback without data fail the iteration also
\* when the primary's record was kept
A_FallbackSettles_Rejects ==
    /\ variant = "A" /\ pc \in {"awaitFallbackMerge", "awaitFallbackOnly"}
    /\ \E o \in FallbackSettlements :
        LET fb == o.fb
        IN /\ o.barcode = barcode
           /\ Settle("barcodesLookup", o)
           /\ fallbackData' = fb.data
           /\ IF pc = "awaitFallbackMerge" /\ ~fb.isNull
              THEN /\ Return(WithMeta(mergeProductData(normalizedData, fb.data)))
                   /\ UNCHANGED attempt
              ELSE IF ~fb.isNull /\ FallbackUseful(fb.data)
                   THEN Return(WithoutMeta(fb.data)) /\ UNCHANGED attempt
                   ELSE Catch(Err("Error", "productNotFound", 0))
    /\ UNCHANGED <<op, input, output, variant, apiKey, barcode, calls, primaryData, normalizedData>>
    /\ UNCHANGED <<backoff, fetchVars, appVars, otherVars>>

\* the fallback request settles
A_FallbackSettles ==
    /\ variant = "A" /\ pc \in {"awaitFallbackMerge", "awaitFallbackOnly"}
    /\ \E o \in FallbackSettlements :
        LET fb == o.fb
        IN /\ o.barcode = barcode
           /\ Settle("barcodesLookup", o)
           /\ fallbackData' = fb.data
           /\ IF pc = "awaitFallbackMerge"
              THEN /\ IF ~fb.isNull
                      THEN Return(WithMeta(mergeProductData(normalizedData, fb.data)))
                      ELSE Return(WithMeta(normalizedData))
                   /\ UNCHANGED attempt
              ELSE IF ~fb.isNull /\ FallbackUseful(fb.data)
                   THEN Return(WithoutMeta(fb.data)) /\ UNCHANGED attempt
                   ELSE Catch(Err("Error", "productNotFound", 0))
    /\ UNCHANGED <<op, input, output, variant, apiKey, barcode, calls, primaryData, normalizedData>>
    /\ UNCHANGED <<backoff, fetchVars, appVars, otherVars>>

----------------------------------------------------------------------------
(* Version B: src/unnamed/part_004, three sources tried once each *)

\* the format check and step 1 up to the await of fetchFromBarcodeLookupAPI
B_Start ==
    /\ variant = "B" /\ pc = "idle"
    /\ IF ~IsGtinFormat(barcode)
       THEN Throw(Err("Error", "invalidFormat", 0)) /\ UNCHANGED calls
       ELSE Issue("barcodeLookup") /\ pc' = "awaitLookup" /\ UNCHANGED result
    /\ UNCHANGED <<op, input, output, variant, apiKey, barcode, attempt, settled, last, onlyTransient,
                   primaryData, normalizedData, fallbackData>>
    /\ UNCHANGED <<backoff, fetchVars, appVars, otherVars>>

\* step 1 settles; on nothing useful step 2 starts: getApiKey() throws
\* inside the try blocks of steps 2 and 3 when the key is not configured
B_LookupSettles ==
    /\ variant = "B" /\ pc = "awaitLookup"
    /\ \E o \in LookupSettlements :
        /\ o.barcode = barcode
        /\ Settle("barcodeLookup", o)
        /\ primaryData' = o.fb.data
        /\ IF ~o.fb.isNull /\ LookupUseful(o.fb.data)
           THEN Return(WithMeta(o.fb.data)) /\ UNCHANGED calls
           ELSE IF ~apiKey
           THEN Throw(Err("Error", "productNotFound", 0)) /\ UNCHANGED calls
           ELSE Issue("bigProductData") /\ pc' = "awaitPrimary" /\ UNCHANGED result
    /\ UNCHANGED <<op, input, output, variant, apiKey, barcode, attempt, normalizedData, fallbackData>>
    /\ UNCHANGED <<backoff, fetchVars, appVars, otherVars>>

\* step 2 settles: a failed response, a body that does not parse or that
\* normalizeProductData rejects, and a record without identifier or name
\* all lead to step 3
B_PrimarySettles ==
    /\ variant = "B" /\ pc = "awaitPrimary"
    /\ \/ \E o \in Failures :
            /\ Settle("bigProductData", o)
            /\ Issue("barcodesLookup") /\ pc' = "awaitFallback"
            /\ UNCHANGED <<normalizedData, result>>
       \/ \E n \in PrimaryOkSettlements :
            /\ Settle("bigProductData", OkResponse)
            /\ IF n.error = "none" /\ HasIdentifierOrName(n.data)
               THEN /\ normalizedData' = n.data
                    /\ Return(WithMeta(n.data)) /\ UNCHANGED calls
               ELSE /\ normalizedData' = n.data
                    /\ Issue("barcodesLookup") /\ pc' = "awaitFallback"
                    /\ UNCHANGED result
    /\ UNCHANGED <<op, input, output, variant, apiKey, barcode, attempt, primaryData, fallbackData>>
    /\ UNCHANGED <<backoff, fetchVars, appVars, otherVars>>

\* step 3 settles
B_FallbackSettles ==
    /\ variant = "B" /\ pc = "awaitFallback"
    /\ \E o \in FallbackSettlements :
        /\ o.barcode = barcode
        /\ Settle("barcodesLookup", o)
        /\ fallbackData' = o.fb.data
        /\ IF ~o.fb.isNull /\ FallbackUseful(o.fb.data)
           THEN Return(WithMeta(o.fb.data))
           ELSE Throw(Err("Error", "productNotFound", 0))
    /\ UNCHANGED <<op, input, output, variant, apiKey, barcode, attempt, calls, primaryData,
                   normalizedData>>
    /\ UNCHANGED <<backoff, fetchVars, appVars, otherVars>>

Next ==
    \/ A_Start
    \/ A_CallPrimary
    \/ A_PrimaryFails
    \/ A_PrimaryOk
    \/ A_FallbackSettles
    \/ B_Start
    \/ B_LookupSettles
    \/ B_PrimarySettles
    \/ B_FallbackSettles

Spec == Init /\ [][Next]_vars

\* An invocation is one async function: between two awaits its code runs to
\* the next await, and the step after an await is taken once the awaited
\* request has settled (answered, failed, or aborted by its timer).  With
\* every request settling, a step that stays enabled is eventually taken.
SpecLive == Spec /\ WF_vars(Next)

----------------------------------------------------------------------------
(* The helpers on their own: one call of one helper on one input *)

InitF ==
    /\ \/ op = "validateBarcode" /\ input \in Texts
       \/ op \in {"formatCheck", "decodeCallback"} /\ input \in Texts \ {Null}
       \/ op = "checkFields" /\ input \in AnalysisRecords
       \/ op = "mergeProductData" /\ input \in MergePairs
       \/ \E f \in DOMAIN NormalizerInputs : op = f /\ input \in NormalizerInputs[f]
    /\ output = <<>>
    /\ variant = "A" /\ apiKey = TRUE
    /\ barcode = CHOOSE b \in Barcodes : IsGtinFormat(b)
    /\ Idle
    /\ NoFetch
    /\ NoApp /\ NoScan /\ NoProxy

F_validateBarcode ==
    /\ op = "validateBarcode" /\ Len(output) = 0
    /\ output' = <<validateBarcode(input)>>
    /\ UNCHANGED <<op, input, variant, apiKey, barcode, pc, attempt, calls, settled, last,
                   onlyTransient, primaryData, normalizedData, fallbackData, result>>
    /\ UNCHANGED <<backoff, fetchVars, appVars, otherVars>>

\* the value of a successful validation validated again
F_validateAgain ==
    /\ op = "validateBarcode" /\ Len(output) = 1 /\ output[1].valid
    /\ output' = <<output[1], validateBarcode(output[1].value)>>
    /\ UNCHANGED <<op, input, variant, apiKey, barcode, pc, attempt, calls, settled, last,
                   onlyTransient, primaryData, normalizedData, fallbackData, result>>
    /\ UNCHANGED <<backoff, fetchVars, appVars, otherVars>>

\* checkMissingFields, checkAvailableFields and the flag derived from them
F_checkFields ==
    /\ op = "checkFields" /\ Len(output) = 0
    /\ output' = <<WithMeta(input)>>
    /\ UNCHANGED <<op, input, variant, apiKey, barcode, pc, attempt, calls, settled, last,
                   onlyTransient, primaryData, normalizedData, fallbackData, result>>
    /\ UNCHANGED <<backoff, fetchVars, appVars, otherVars>>

F_mergeProductData ==
    /\ op = "mergeProductData" /\ Len(output) = 0
    /\ output' = <<mergeProductData(input[1], input[2])>>
    /\ UNCHANGED <<op, input, variant, apiKey, barcode, pc, attempt, calls, settled, last,
                   onlyTransient, primaryData, normalizedData, fallbackData, result>>
    /\ UNCHANGED <<backoff, fetchVars, appVars, otherVars>>

\* one of the three normalizers applied to a response body
F_normalize ==
    /\ op \in DOMAIN NormalizerInputs /\ Len(output) = 0
    /\ output' =
        <<CASE op = "normalizeProductData" -> normalizeProductData(input)
            [] op = "normalizeFallbackData" -> normalizeFallbackData(input, barcode)
            [] OTHER -> [error |-> "none", isNull |-> FALSE,
                         data |-> normalizeBarcodeLookupData(input.body, barcode)]>>
    /\ UNCHANGED <<op, input, variant, apiKey, barcode, pc, attempt, calls, settled, last,
                   onlyTransient, primaryData, normalizedData, fallbackData, result>>
    /\ UNCHANGED <<backoff, fetchVars, appVars, otherVars>>

\* the same two records merged in the other order
F_mergeSwapped ==
    /\ op = "mergeProductData" /\ Len(output) = 1
    /\ output' = <<output[1], mergeProductData(input[2], input[1])>>
    /\ UNCHANGED <<op, input, variant, apiKey, barcode, pc, attempt, calls, settled, last,
                   onlyTransient, primaryData, normalizedData, fallbackData, result>>
    /\ UNCHANGED <<backoff, fetchVars, appVars, otherVars>>

\* decodedText.replace(/[^0-9]/g, '')
IsDigit(c) == c \in Digits

cleanedBarcode(decodedText) == SelectSeq(decodedText, IsDigit)

\* the decode callback hands the cleaned text to handleScanSuccess when it has
\* 8 to 14 digits and, failing that, when it has 6 to 15
Forwards(decodedText) ==
    LET cleaned == cleanedBarcode(decodedText)
    IN  \/ IsGtinFormat(cleaned)
        \/ Len(cleaned) >= 6 /\ Len(cleaned) <= 15

\* the validator and the format test of fetchProductByBarcode on one text:
\* the text as given to the validator, the trimmed text given to both, and
\* the validator's value given to the format test
F_formatCheck ==
    /\ op = "formatCheck" /\ Len(output) = 0
    /\ LET validation == validateBarcode(input)
           trimmed == Trim(input)
       IN  output' = <<[validation |-> validation,
                        ofTrimmed |-> validateBarcode(trimmed),
                        format |-> IsGtinFormat(trimmed),
                        passes |-> validation.valid /\ IsGtinFormat(validation.value)]>>
    /\ UNCHANGED <<op, input, variant, apiKey, barcode, pc, attempt, calls, settled, last,
                   onlyTransient, primaryData, normalizedData, fallbackData, result>>
    /\ UNCHANGED <<backoff, fetchVars, appVars, otherVars>>

\* the decode callback of the scanner on one decoded text, and the validator
\* on what it forwards
F_decodeCallback ==
    /\ op = "decodeCallback" /\ Len(output) = 0
    /\ LET cleaned == cleanedBarcode(input)
       IN  output' = <<[forwarded |-> Forwards(input),
                        text |-> cleaned,
                        validation |-> validateBarcode(cleaned)]>>
    /\ UNCHANGED <<op, input, variant, apiKey, barcode, pc, attempt, calls, settled, last,
                   onlyTransient, primaryData, normalizedData, fallbackData, result>>
    /\ UNCHANGED <<backoff, fetchVars, appVars, otherVars>>

NextF ==
    \/ F_validateBarcode
    \/ F_validateAgain
    \/ F_checkFields
    \/ F_mergeProductData
    \/ F_mergeSwapped
    \/ F_normalize
    \/ F_formatCheck
    \/ F_decodeCallback

SpecF == InitF /\ [][NextF]_vars

----------------------------------------------------------------------------
(* One request of version A: fetchWithTimeout and the reading of the body  *)
(* by its caller, with the time that passes (SpecT).                       *)

REQUEST_TIMEOUT == 60000
\* time passes in steps of TickMs, up to MaxClock
TickMs == 20000
MaxClock == 120000

\* the callers of fetchWithTimeout: the retry loop and fetchFromFallbackAPI
CallSites == {"primary", "fallback"}

\* statuses a response can carry
ResponseStatuses == {OkResponse.status} \cup ErrorStatuses

\* the caller reads the body of the response (response.json() or
\* response.text()) before it goes on: the primary call for a 2xx and for
\* the statuses it has no message for, the fallback call always
ReadsBody(caller, status) ==
    \/ caller = "fallback"
    \/ status = OkResponse.status
    \/ status \notin {404, 401, 403, 429} /\ status < 500

InitT ==
    /\ NoCall /\ Idle /\ NoFetch /\ NoApp /\ NoScan /\ NoProxy
    /\ variant = "A" /\ apiKey = TRUE
    /\ barcode = CHOOSE b \in Barcodes : IsGtinFormat(b)

\* fetchWithTimeout is called: the timer is set and fetch is started
T_Call ==
    /\ phase = "none"
    /\ \E c \in CallSites : site' = c
    /\ timer' = "armed" /\ phase' = "pending" /\ clock' = 0
    /\ UNCHANGED <<answer, helperVars, resolveVars, appVars, otherVars>>

\* time passes while the request is outstanding; an armed timer whose delay
\* has elapsed runs before more time passes
T_Tick ==
    /\ phase \in {"pending", "body"}
    /\ clock < MaxClock
    /\ ~(timer = "armed" /\ clock >= REQUEST_TIMEOUT)
    /\ clock' = clock + TickMs
    /\ UNCHANGED <<timer, phase, site, answer, helperVars, resolveVars, appVars, otherVars>>

\* the timer runs: controller.abort(), fetch rejects with AbortError and
\* .catch rethrows it as 'Request timeout'
T_Abort ==
    /\ timer = "armed" /\ clock >= REQUEST_TIMEOUT
    /\ phase = "pending"
    /\ timer' = "fired" /\ phase' = "rejected"
    /\ answer' = [kind |-> "timeout", status |-> 0]
    /\ UNCHANGED <<clock, site, helperVars, resolveVars, appVars, otherVars>>

\* fetch fulfils with a response (status and headers): .then clears the
\* timer and returns the response, whose body the caller may then read
T_Response ==
    /\ phase = "pending" /\ timer = "armed"
    /\ \E st \in ResponseStatuses :
        /\ answer' = [kind |-> IF st = OkResponse.status THEN "ok" ELSE "http", status |-> st]
        /\ phase' = IF ReadsBody(site, st) THEN "body" ELSE "read"
        /\ timer' = "cleared"
    /\ UNCHANGED <<clock, site, helperVars, resolveVars, appVars, otherVars>>

\* fetch rejects with a transport error: .catch clears the timer and
\* rethrows it
T_NetworkError ==
    /\ phase = "pending" /\ timer = "armed"
    /\ \E k \in {"networkFetch", "networkOther"} : answer' = [kind |-> k, status |-> 0]
    /\ timer' = "cleared" /\ phase' = "rejected"
    /\ UNCHANGED <<clock, site, helperVars, resolveVars, appVars, otherVars>>

\* response.json() / response.text() settles: the body has arrived and
\* parsed, or did not parse
T_BodyRead ==
    /\ phase = "body"
    /\ \/ UNCHANGED answer
       \/ answer.kind = "ok" /\ answer' = [kind |-> "badJson", status |-> 0]
    /\ phase' = "read"
    /\ UNCHANGED <<timer, clock, site, helperVars, resolveVars, appVars, otherVars>>

NextT ==
    \/ T_Call
    \/ T_Tick
    \/ T_Abort
    \/ T_Response
    \/ T_NetworkError
    \/ T_BodyRead

SpecT == InitT /\ [][NextT]_vars

----------------------------------------------------------------------------
(* The App component (src/src/App.js): scans, lookups in progress, the     *)
(* error shown and its Retry and Dismiss buttons (SpecApp).                *)

\* fetchProductByBarcode is called at most MaxLookups times
MaxLookups == 3

\* texts handed to onScan: two barcodes, one of them also with blanks around
\* it, and a text that is no barcode
ScanTexts ==
    LET eight == <<"1", "2", "3", "4", "5", "6", "7", "8">>
    IN {CHOOSE b \in Barcodes : IsGtinFormat(b), eight, <<" ">> \o eight \o <<" ">>,
        <<"1", "2", "a">>}

\* the error state set from a failed validation or a rejected lookup; the
\* message is kept with the text it is about and the number of the lookup
AppError(from, text, index) == <<[from |-> from, code |-> text, index |-> index]>>

InitApp ==
    /\ NoCall /\ Idle /\ NoFetch /\ NoApp /\ NoScan /\ NoProxy
    /\ variant = "A" /\ apiKey = TRUE
    /\ barcode = CHOOSE b \in Barcodes : IsGtinFormat(b)

\* handleBarcodeScanned starting the lookup before it looks at the validation
handleBarcodeScanned_LookupFirst(text) ==
    LET validation == validateBarcode(text)
    IN /\ Len(lookups) < MaxLookups
       /\ lookups' = Append(lookups, [barcode |-> validation.value, state |-> "pending"])
       /\ IF ~validation.valid
          THEN /\ appError' = AppError("validation", text, 0)
               /\ loading' = FALSE
               /\ scanning' = FALSE
               /\ UNCHANGED <<productData, lastBarcodeRef>>
          ELSE /\ lastBarcodeRef' = <<validation.value>>
               /\ loading' = TRUE
               /\ appError' = <<>>
               /\ productData' = <<>>
               /\ UNCHANGED scanning

\* handleBarcodeScanned up to its await
handleBarcodeScanned(text) ==
    LET validation == validateBarcode(text)
    IN IF ~validation.valid
       THEN /\ appError' = AppError("validation", text, 0)
            /\ loading' = FALSE
            /\ scanning' = FALSE
            /\ UNCHANGED <<productData, lastBarcodeRef, lookups>>
       ELSE /\ Len(lookups) < MaxLookups
            /\ lastBarcodeRef' = <<validation.value>>
            /\ loading' = TRUE
            /\ appError' = <<>>
            /\ productData' = <<>>
            /\ lookups' = Append(lookups, [barcode |-> validation.value, state |-> "pending"])
            /\ UNCHANGED scanning

\* the barcode handleRetry passes on: <<>> when it finds none
RetryText ==
    IF lastBarcodeRef # <<>> THEN lastBarcodeRef
    ELSE IF productData # <<>> THEN <<productData[1].gtin>>
    ELSE <<>>

\* startScanning of the scanner component
App_StartScanning ==
    /\ ~scanning
    /\ scanning' = TRUE
    /\ event' = [name |-> "startScanning", shown |-> appError, n |-> Len(lookups)]
    /\ UNCHANGED <<productData, loading, appError, lastBarcodeRef, lookups>>
    /\ UNCHANGED <<helperVars, resolveVars, fetchVars, otherVars>>

\* onScan: the camera or the manual form hands a text over
App_Scan ==
    /\ \E text \in ScanTexts : handleBarcodeScanned(text)
    /\ event' = [name |-> "scan", shown |-> appError, n |-> Len(lookups)]
    /\ UNCHANGED <<helperVars, resolveVars, fetchVars, otherVars>>

\* a call of fetchProductByBarcode settles and its handleBarcodeScanned
\* runs to the end
App_LookupSettles ==
    /\ \E i \in 1..Len(lookups) :
        /\ lookups[i].state = "pending"
        /\ \/ /\ lookups' = [lookups EXCEPT ![i].state = "resolved"]
              /\ productData' = <<[gtin |-> lookups[i].barcode]>>
              /\ UNCHANGED appError
           \/ /\ lookups' = [lookups EXCEPT ![i].state = "rejected"]
              /\ appError' = AppError("lookup", lookups[i].barcode, i)
              /\ UNCHANGED productData
    /\ loading' = FALSE
    /\ scanning' = FALSE
    /\ event' = [name |-> "settle", shown |-> appError, n |-> Len(lookups)]
    /\ UNCHANGED lastBarcodeRef
    /\ UNCHANGED <<helperVars, resolveVars, fetchVars, otherVars>>

\* the Dismiss button of the error shown
App_Dismiss ==
    /\ appError # <<>>
    /\ appError' = <<>>
    /\ event' = [name |-> "dismiss", shown |-> appError, n |-> Len(lookups)]
    /\ UNCHANGED <<productData, loading, scanning, lastBarcodeRef, lookups>>
    /\ UNCHANGED <<helperVars, resolveVars, fetchVars, otherVars>>

\* the Retry button of the error shown
App_Retry ==
    /\ appError # <<>>
    /\ IF RetryText # <<>>
       THEN handleBarcodeScanned(RetryText[1])
       ELSE UNCHANGED <<productData, loading, appError, scanning, lastBarcodeRef, lookups>>
    /\ event' = [name |-> "retry", shown |-> appError, n |-> Len(lookups)]
    /\ UNCHANGED <<helperVars, resolveVars, fetchVars, otherVars>>

NextApp ==
    \/ App_StartScanning
    \/ App_Scan
    \/ App_LookupSettles
    \/ App_Dismiss
    \/ App_Retry

SpecApp == InitApp /\ [][NextApp]_vars

----------------------------------------------------------------------------
(* Entry of an input: a text handed to the App component, or a barcode     *)
(* handed directly to fetchProductByBarcode (followed up to its first      *)
(* await).                                                                 *)
NextEntry ==
    \/ NextApp
    \/ A_Start
    \/ B_Start

SpecEntry == Init /\ [][NextEntry]_vars

----------------------------------------------------------------------------
(***************************************************************************)
(* The scanner component.  An Html5Qrcode instance is "starting" while     *)
(* start() is awaited, then "started" or "failed"; stop() on a started     *)
(* instance is awaited ("stopping" when stopScanning awaits it,            *)
(* "replacing" when startScanning does) and leaves it "stopped"; stop() on *)
(* an instance that is not scanning fails at once and clear() on one that  *)
(* is scanning fails, both ignored by the code; clear() on a stopped       *)
(* instance leaves it "cleared".  A decode under way when stop() is called *)
(* can still be reported.  The parent is what the component sees of it:    *)
(* onScan, which sets scanning to false for a text that fails validation   *)
(* and else starts a lookup, at whose end scanning is set to false.        *)
(***************************************************************************)
MaxInstances == 3
MaxSessionScans == 2
MaxPending == 2

\* texts the decoder reports and both versions of the component forward:
\* eight digits and seven digits
DecodedTexts ==
    {<<"1", "2", "3", "4", "5", "6", "7", "8">>, <<"1", "2", "3", "4", "5", "6", "7">>}

appRest == <<productData, loading, appError, lastBarcodeRef, lookups, event>>

InitScan ==
    /\ NoCall /\ Idle /\ NoFetch /\ NoApp /\ NoProxy
    /\ variant = "A" /\ apiKey = TRUE
    /\ barcode = CHOOSE b \in Barcodes : IsGtinFormat(b)
    /\ isMobile \in BOOLEAN
    /\ html5QrCodeRef = 0 /\ isScannerRunningRef = FALSE
    /\ instances = <<>> /\ cameraError = FALSE
    /\ seenScanning = FALSE /\ cleanupTimer = 0
    /\ sessionScans = 0 /\ parentPending = 0

\* effects are flushed before the next event is handled
EffectsFlushed == seenScanning = scanning

\* the instances whose stop() is awaited by a startScanning
Replacing == {i \in 1..Len(instances) : instances[i] = "replacing"}

\* clear() called on instance i (0: on null)
Cleared(all, i) ==
    IF i # 0 /\ all[i] \in {"stopped", "failed"} THEN [all EXCEPT ![i] = "cleared"] ELSE all

\* onScan of the parent (handleBarcodeScanned of the App, as far as the
\* component sees it), after stopScanning has or has not set scanning to false
onScan(text, stopped) ==
    LET validation == validateBarcode(text)
    IN /\ validation.valid => parentPending < MaxPending
       /\ parentPending' = IF validation.valid THEN parentPending + 1 ELSE parentPending
       /\ scanning' = IF stopped \/ ~validation.valid THEN FALSE ELSE scanning

\* stopScanning has nothing to await: no instance, or stop() fails at once
StopsAtOnce == html5QrCodeRef = 0 \/ instances[html5QrCodeRef] # "started"

\* stopScanning up to its await
stopScanning ==
    /\ isScannerRunningRef' = FALSE
    /\ instances' = IF StopsAtOnce THEN instances
                    ELSE [instances EXCEPT ![html5QrCodeRef] = "stopping"]

\* the Stop Scanner button
Scan_StopButton ==
    /\ EffectsFlushed /\ scanning
    /\ stopScanning
    /\ scanning' = IF StopsAtOnce THEN FALSE ELSE scanning
    /\ UNCHANGED <<isMobile, html5QrCodeRef, cameraError, seenScanning, cleanupTimer,
                   sessionScans, parentPending>>
    /\ UNCHANGED <<helperVars, resolveVars, fetchVars, appRest, proxyVars>>

\* the stop() awaited by stopScanning completes
Scan_StopResolves ==
    /\ EffectsFlushed
    /\ \E i \in 1..Len(instances) :
        /\ instances[i] = "stopping"
        /\ instances' = [instances EXCEPT ![i] = "stopped"]
    /\ scanning' = FALSE
    /\ UNCHANGED <<isMobile, html5QrCodeRef, isScannerRunningRef, cameraError, seenScanning,
                   cleanupTimer, sessionScans, parentPending>>
    /\ UNCHANGED <<helperVars, resolveVars, fetchVars, appRest, proxyVars>>

\* the decode callback of an instance: handleScanSuccess
Scan_Decoded ==
    /\ EffectsFlushed
    /\ sessionScans < MaxSessionScans
    /\ \E i \in 1..Len(instances), text \in DecodedTexts :
        /\ instances[i] \in {"started", "stopping", "replacing"}
        /\ stopScanning
        /\ onScan(text, StopsAtOnce)
    /\ sessionScans' = sessionScans + 1
    /\ UNCHANGED <<isMobile, html5QrCodeRef, cameraError, seenScanning, cleanupTimer>>
    /\ UNCHANGED <<helperVars, resolveVars, fetchVars, appRest, proxyVars>>

\* handleManualSubmit with a text that is not blank
Scan_ManualSubmit ==
    /\ EffectsFlushed /\ ~isMobile
    /\ \E text \in DecodedTexts : onScan(text, FALSE)
    /\ UNCHANGED <<isMobile, html5QrCodeRef, isScannerRunningRef, instances, cameraError,
                   seenScanning, cleanupTimer, sessionScans>>
    /\ UNCHANGED <<helperVars, resolveVars, fetchVars, appRest, proxyVars>>

\* a lookup of the parent settles: the finally block of handleBarcodeScanned
Scan_ParentLookupSettles ==
    /\ EffectsFlushed /\ parentPending > 0
    /\ parentPending' = parentPending - 1
    /\ scanning' = FALSE
    /\ UNCHANGED <<isMobile, html5QrCodeRef, isScannerRunningRef, instances, cameraError,
                   seenScanning, cleanupTimer, sessionScans>>
    /\ UNCHANGED <<helperVars, resolveVars, fetchVars, appRest, proxyVars>>

\* startScanning up to its first await: called by the start button and the
\* auto-start timer (both exist while scanning is false) and by Retry of
\* the camera error shown
startScanning(trigger) ==
    /\ EffectsFlushed
    /\ ~isScannerRunningRef
    /\ trigger \in {"button", "autoStart"} => ~scanning
    /\ trigger = "autoStart" => isMobile
    /\ trigger = "retry" => cameraError
    /\ Len(instances) + Cardinality(Replacing) < MaxInstances
    /\ scanning' = TRUE
    /\ IF html5QrCodeRef # 0 /\ instances[html5QrCodeRef] = "started"
       THEN /\ instances' = [instances EXCEPT ![html5QrCodeRef] = "replacing"]
            /\ UNCHANGED html5QrCodeRef
       ELSE /\ instances' = Append(instances, "starting")
            /\ html5QrCodeRef' = Len(instances) + 1
    /\ UNCHANGED <<isMobile, isScannerRunningRef, cameraError, seenScanning, cleanupTimer,
                   sessionScans, parentPending>>
    /\ UNCHANGED <<helperVars, resolveVars, fetchVars, appRest, proxyVars>>

Scan_Start == \E trigger \in {"button", "autoStart", "retry"} : startScanning(trigger)

\* the stop() awaited by startScanning completes: clear(), a new instance,
\* start()
Scan_ReplaceResolves ==
    /\ EffectsFlushed
    /\ \E i \in Replacing :
        LET stopped == [instances EXCEPT ![i] = "stopped"]
        IN instances' = Append(Cleared(stopped, html5QrCodeRef), "starting")
    /\ html5QrCodeRef' = Len(instances) + 1
    /\ UNCHANGED <<isMobile, isScannerRunningRef, cameraError, seenScanning, cleanupTimer,
                   sessionScans, parentPending>>
    /\ UNCHANGED <<scanning, helperVars, resolveVars, fetchVars, appRest, proxyVars>>

\* start() of an instance succeeds
Scan_StartResolves ==
    /\ EffectsFlushed
    /\ \E i \in 1..Len(instances) :
        /\ instances[i] = "starting"
        /\ instances' = [instances EXCEPT ![i] = "started"]
    /\ isScannerRunningRef' = TRUE
    /\ cameraError' = FALSE
    /\ sessionScans' = 0
    /\ UNCHANGED <<isMobile, html5QrCodeRef, seenScanning, cleanupTimer, parentPending>>
    /\ UNCHANGED <<scanning, helperVars, resolveVars, fetchVars, appRest, proxyVars>>

\* start() of an instance fails: the catch block of startScanning
Scan_StartRejects ==
    /\ EffectsFlushed
    /\ \E i \in 1..Len(instances) :
        /\ instances[i] = "starting"
        /\ instances' = Cleared([instances EXCEPT ![i] = "failed"], html5QrCodeRef)
    /\ isScannerRunningRef' = FALSE
    /\ scanning' = FALSE
    /\ html5QrCodeRef' = 0
    /\ cameraError' = TRUE
    /\ UNCHANGED <<isMobile, seenScanning, cleanupTimer, sessionScans, parentPending>>
    /\ UNCHANGED <<helperVars, resolveVars, fetchVars, appRest, proxyVars>>

\* the effect on [scanning]: its previous cleanup, then its body
Scan_CleanupEffect ==
    /\ ~EffectsFlushed
    /\ seenScanning' = scanning
    /\ IF ~scanning /\ html5QrCodeRef # 0 /\ isScannerRunningRef
       THEN isScannerRunningRef' = FALSE /\ cleanupTimer' = html5QrCodeRef
       ELSE cleanupTimer' = 0 /\ UNCHANGED isScannerRunningRef
    /\ UNCHANGED <<isMobile, html5QrCodeRef, instances, cameraError, sessionScans,
                   parentPending>>
    /\ UNCHANGED <<scanning, helperVars, resolveVars, fetchVars, appRest, proxyVars>>

\* the 300 ms timer of the effect fires
Scan_CleanupTimerFires ==
    /\ EffectsFlushed /\ cleanupTimer # 0
    /\ instances' = Cleared(instances, cleanupTimer)
    /\ html5QrCodeRef' = 0
    /\ cleanupTimer' = 0
    /\ UNCHANGED <<isMobile, isScannerRunningRef, cameraError, seenScanning, sessionScans,
                   parentPending>>
    /\ UNCHANGED <<scanning, helperVars, resolveVars, fetchVars, appRest, proxyVars>>

NextScan ==
    \/ Scan_Start
    \/ Scan_ReplaceResolves
    \/ Scan_StartResolves
    \/ Scan_StartRejects
    \/ Scan_StopButton
    \/ Scan_StopResolves
    \/ Scan_Decoded
    \/ Scan_ManualSubmit
    \/ Scan_ParentLookupSettles
    \/ Scan_CleanupEffect
    \/ Scan_CleanupTimerFires

SpecScan == InitScan /\ [][NextScan]_vars

----------------------------------------------------------------------------
(***************************************************************************)
(* The proxy handler.  A request is its method and the barcode query       *)
(* parameter (Null when the parameter is missing); a response is its       *)
(* status.                                                                 *)
(***************************************************************************)
ProxyMethods == {"GET", "OPTIONS", "POST", "PUT", "DELETE", "HEAD"}
ProxyVersions == {"part_005", "DEPLOYMENT.md"}

\* statuses barcodelookup.com answers with
UpstreamStatuses == {200, 403, 404, 429, 500}

\* response.ok
IsOk(status) == status >= 200 /\ status <= 299

\* the checks of the handler without the test of the method for GET
Precheck_AnyMethod(method, code) ==
    IF method = "OPTIONS" THEN 200
    ELSE IF code = Null \/ code = <<>> THEN 400
    ELSE IF ~IsGtinFormat(code) THEN 400
    ELSE 0

\* the checks of the handler before the upstream request: the status it
\* answers with, 0 when it goes on to the upstream request
Precheck(method, code) ==
    IF method = "OPTIONS" THEN 200
    ELSE IF method # "GET" THEN 405
    ELSE IF code = Null \/ code = <<>> THEN 400
    ELSE IF ~IsGtinFormat(code) THEN 400
    ELSE 0

InitProxy ==
    /\ NoCall /\ Idle /\ NoFetch /\ NoApp /\ NoScan /\ NoProxy
    /\ variant = "A" /\ apiKey = TRUE
    /\ barcode = CHOOSE b \in Barcodes : IsGtinFormat(b)

\* the handler is invoked and runs to its first return or to the await of
\* the upstream fetch
P_Request ==
    /\ proxyPc = "idle"
    /\ \E method \in ProxyMethods, code \in Texts, version \in ProxyVersions :
        /\ req' = [method |-> method, barcode |-> code, version |-> version]
        /\ IF Precheck(method, code) # 0
           THEN /\ responses' = Append(responses, Precheck(method, code))
                /\ proxyPc' = "done"
                /\ UNCHANGED upstreamCalls
           ELSE /\ upstreamCalls' = upstreamCalls + 1
                /\ proxyPc' = "awaitUpstream"
                /\ UNCHANGED responses
    /\ UNCHANGED <<helperVars, resolveVars, fetchVars, appVars, scanVars>>

\* the upstream fetch rejects: the catch block
P_UpstreamFails ==
    /\ proxyPc = "awaitUpstream"
    /\ responses' = Append(responses, 500)
    /\ proxyPc' = "done"
    /\ UNCHANGED <<req, upstreamCalls>>
    /\ UNCHANGED <<helperVars, resolveVars, fetchVars, appVars, scanVars>>

\* the upstream answers with a status and a body that is JSON or not
P_UpstreamAnswers ==
    /\ proxyPc = "awaitUpstream"
    /\ \E status \in UpstreamStatuses, json \in BOOLEAN :
        responses' = Append(responses,
            IF req.version = "part_005"
            THEN IF json THEN status ELSE 500
            ELSE IF ~IsOk(status) THEN status
                 ELSE IF json THEN 200 ELSE 500)
    /\ proxyPc' = "done"
    /\ UNCHANGED <<req, upstreamCalls>>
    /\ UNCHANGED <<helperVars, resolveVars, fetchVars, appVars, scanVars>>

NextProxy ==
    \/ P_Request
    \/ P_UpstreamFails
    \/ P_UpstreamAnswers

SpecProxy == InitProxy /\ [][NextProxy]_vars

----------------------------------------------------------------------------
(* Properties of the resolution pipeline, checked under Spec *)

C2_AsStated ==
    last.status \in {401, 403, 429} =>
        /\ pc = "done"
        /\ result.status = "rejected"
        /\ result.error.kind \in {"invalidApiKey", "rateLimit"}

\* C2: a 401, 403 or 429 answer of Big Product Data in version A ends the
\* invocation at once, rejected with the invalid-key error (401, 403) or
\* the rate-limit error (429); the same answer from the Barcodes Lookup
\* fallback, or from any source of version B, counts as that source having
\* no data: the invocation never rejects with either error because of it.
C2_AuthAndRateLimit ==
    last.status \in {401, 403, 429} =>
        IF variant = "A" /\ last.source = "bigProductData"
        THEN /\ pc = "done"
             /\ result.status = "rejected"
             /\ result.error.kind =
                    (IF last.status = 429 THEN "rateLimit" ELSE "invalidApiKey")
        ELSE result.error.kind \notin {"invalidApiKey", "rateLimit"}

C2_Witness ==
    /\ variant = "A" /\ last.source = "bigProductData" /\ last.status = 429
    /\ attempt = 1
    /\ result.error.kind = "rateLimit"

\* C3 as stated: after a 404 answer of a source that is not the last one the
\* invocation is not rejected and the next source has been called.
C3_AsStated ==
    (last.status = 404 /\ last.source # "barcodesLookup") =>
        /\ result.status # "rejected"
        /\ last.source = "barcodeLookup" => calls["bigProductData"] > 0
        /\ last.source = "bigProductData" => calls["barcodesLookup"] > 0

\* C3: a 404 answer of Big Product Data in version A rejects the invocation
\* at once with the product-not-found error of the primary, the fallback not
\* being called for it; in version B a 404 answer of a source that is not the
\* last one leads to the call of the next source (from barcodelookup.com to
\* Big Product Data when the API key is configured).
C3_NotFoundStatus ==
    last.status = 404 =>
        /\ (variant = "A" /\ last.source = "bigProductData") =>
              /\ pc = "done"
              /\ result.status = "rejected"
              /\ result.error.kind = "notFound404"
        /\ (variant = "B" /\ last.source = "barcodeLookup" /\ apiKey) =>
              pc = "awaitPrimary" /\ calls["bigProductData"] = 1
        /\ (variant = "B" /\ last.source = "bigProductData") =>
              pc = "awaitFallback" /\ calls["barcodesLookup"] = 1

C3_Witness ==
    /\ variant = "A" /\ last.source = "bigProductData" /\ last.status = 404
    /\ pc = "done" /\ result.error.kind = "notFound404"
    /\ calls["barcodesLookup"] = 0

\* C4 as stated: every product the invocation resolves with has a name, a
\* brand or an image (under one of the aliases of the field).
C4_AsStated ==
    result.status = "resolved" =>
        \E k \in {"name", "product_name", "title", "brand", "manufacturer",
                  "image", "product_image", "image_url"} :
            Truthy(result.product.data[k])

\* C4: the invocation resolves only with a record that passed the test of
\* the source that supplied it: gtin, upc, name or product_name set for Big
\* Product Data (a record with nothing but its identifier is returned);
\* name, product_name, image or manufacturer set for Barcodes Lookup; name,
\* product_name, image or brand set for barcodelookup.com.  It rejects with
\* the product-not-found error only when no source it consulted in the last
\* round supplied such a record.
C4_Sufficiency ==
    LET d == result.product.data
        big(r) == Truthy(r["gtin"]) \/ Truthy(r["upc"])
                    \/ Truthy(r["name"]) \/ Truthy(r["product_name"])
        fb(r) == Truthy(r["name"]) \/ Truthy(r["product_name"])
                    \/ Truthy(r["image"]) \/ Truthy(r["manufacturer"])
        lk(r) == Truthy(r["name"]) \/ Truthy(r["product_name"])
                    \/ Truthy(r["image"]) \/ Truthy(r["brand"])
    IN /\ result.status = "resolved" =>
            CASE last.source = "bigProductData" -> big(d) /\ d = normalizedData
              [] last.source = "barcodeLookup" -> lk(d) /\ d = primaryData
              [] OTHER -> IF variant = "A" /\ big(normalizedData)
                          THEN big(d)
                          ELSE fb(d) /\ d = fallbackData
       /\ (result.status = "rejected" /\ result.error.kind = "productNotFound") =>
            /\ ~big(normalizedData)
            /\ ~fb(fallbackData)
            /\ ~lk(primaryData)

C4_Witness ==
    /\ result.status = "resolved"
    /\ Truthy(result.product.data["gtin"])
    /\ \A k \in ProductKeys \ {"gtin", "gtin13", "gtin14", "upc"} :
            ~Truthy(result.product.data[k])
    /\ calls["barcodesLookup"] = 1

\* C5 as stated: once the last source has answered and no source has
\* supplied a usable record, the invocation is over, rejected with the
\* product-not-found error: no further call is prepared.
C5_AsStated ==
    (/\ last.source = "barcodesLookup"
     /\ normalizedData = NoProduct \/ ~HasIdentifierOrName(normalizedData)
     /\ fallbackData = NoProduct
     /\ primaryData = NoProduct) =>
        /\ pc = "done"
        /\ result.status = "rejected"
        /\ result.error.kind = "productNotFound"

\* C7 as stated: when the first source (Big Product Data in version A)
\* answered a record with a brand and neither name nor image, and the second
\* answered name and image, the invocation resolves with all three and the
\* brand of the first source.
C7_AsStated ==
    (/\ variant = "A" /\ pc = "done"
     /\ Truthy(normalizedData["brand"])
     /\ \A k \in {"name", "product_name", "title", "image", "product_image", "image_url"} :
            ~Truthy(normalizedData[k])
     /\ Truthy(fallbackData["name"]) /\ Truthy(fallbackData["image"])) =>
        /\ result.status = "resolved"
        /\ Truthy(result.product.data["name"])
        /\ Truthy(result.product.data["image"])
        /\ result.product.data["brand"] = normalizedData["brand"]

\* C7: in version A, when the Big Product Data record carries a gtin or upc
\* and a brand but neither name nor image, and Barcodes Lookup answers name
\* and image, the invocation resolves with the name and image of Barcodes
\* Lookup and the brand exactly as Big Product Data supplied it; when both
\* sources supply a name, the name of Big Product Data is kept.
C7_BrandThenNameImage ==
    (variant = "A" /\ pc = "done"
        /\ Truthy(fallbackData["name"]) /\ Truthy(fallbackData["image"])) =>
        /\ (/\ Truthy(normalizedData["gtin"]) \/ Truthy(normalizedData["upc"])
            /\ Truthy(normalizedData["brand"])
            /\ \A k \in {"name", "product_name", "title", "image", "product_image",
                         "image_url"} : ~Truthy(normalizedData[k])) =>
                /\ result.status = "resolved"
                /\ result.product.data["name"] = fallbackData["name"]
                /\ result.product.data["image"] = fallbackData["image"]
                /\ result.product.data["brand"] = normalizedData["brand"]
        /\ Truthy(normalizedData["name"]) =>
                /\ result.status = "resolved"
                /\ result.product.data["name"] = normalizedData["name"]

C7_Witness ==
    /\ variant = "A" /\ pc = "done" /\ result.status = "resolved"
    /\ normalizedData["gtin"] = <<"P">>
    /\ normalizedData["brand"] = <<"P">>
    /\ result.product.data["brand"] = <<"P">>
    /\ result.product.data["name"] = <<"F">>
    /\ result.product.data["image"] = <<"F">>

\* C8 as stated: every product the invocation resolves with carries
\* missingFields and availableFields that are disjoint and together hold
\* the five tracked fields, and hasIncompleteData true iff missingFields is
\* not empty.
C8_AsStated ==
    result.status = "resolved" =>
        LET m == {result.product.missingFields[i] :
                    i \in 1..Len(result.product.missingFields)}
            a == {result.product.availableFields[i] :
                    i \in 1..Len(result.product.availableFields)}
        IN /\ result.product.hasMeta
           /\ m \cap a = {}
           /\ m \cup a = {"name", "image", "brand", "description", "price"}
           /\ result.product.hasIncompleteData = (m # {})

----------------------------------------------------------------------------
(* Properties of the helpers, checked under SpecF *)

\* C6: for every pair of records (earlier, later) and every field
\* mergeProductData assigns, the merged record holds the earlier record's
\* value when that is populated (neither null nor ""), otherwise the later
\* record's value when that is populated, and otherwise no value; the
\* identifier keys are those of the earlier record.
C6_FirstNonNullWins ==
    (op = "mergeProductData" /\ Len(output) = 1) =>
        LET earlier == input[1]
            later == input[2]
            merged == output[1]
            populated(v) == v # <<"null">> /\ v # <<"">>
        IN /\ \A k \in {"name", "product_name", "title", "brand", "manufacturer",
                        "description", "product_description", "image",
                        "product_image", "image_url", "price", "price_amount",
                        "category"} :
                /\ populated(earlier[k]) => merged[k] = earlier[k]
                /\ (~populated(earlier[k]) /\ populated(later[k])) => merged[k] = later[k]
                /\ (~populated(earlier[k]) /\ ~populated(later[k])) => ~populated(merged[k])
           /\ \A k \in {"gtin", "gtin13", "gtin14", "upc"} : merged[k] = earlier[k]

C6_Witness ==
    /\ op = "mergeProductData" /\ Len(output) = 1
    /\ input[1]["name"] = <<"P">>
    /\ input[2]["name"] = <<"F">>
    /\ output[1]["name"] = <<"P">>

\* C9: the analysis lists a tracked field as available iff one of its
\* aliases (name: name, product_name, title; image: image, product_image,
\* image_url; brand: brand, manufacturer; description: description,
\* product_description; price: price, price_amount) is neither null nor "",
\* as missing otherwise, both lists in the order name, image, brand,
\* description, price; hasIncompleteData says that a field is missing; a
\* record with only name set has image, brand, description, price missing.
C9_Analysis ==
    (op = "checkFields" /\ Len(output) = 1) =>
        LET aliases == [name |-> {"name", "product_name", "title"},
                        image |-> {"image", "product_image", "image_url"},
                        brand |-> {"brand", "manufacturer"},
                        description |-> {"description", "product_description"},
                        price |-> {"price", "price_amount"}]
            order == <<"name", "image", "brand", "description", "price">>
            available(f) ==
                \E a \in aliases[f] : input[a] # <<"null">> /\ input[a] # <<"">>
            missing(f) == ~available(f)
        IN /\ output[1].availableFields = SelectSeq(order, available)
           /\ output[1].missingFields = SelectSeq(order, missing)
           /\ output[1].hasIncompleteData = (\E f \in DOMAIN aliases : missing(f))
           /\ input = [k \in DOMAIN input |-> IF k = "name" THEN <<"P">> ELSE <<"null">>] =>
                /\ output[1].missingFields = <<"image", "brand", "description", "price">>
                /\ output[1].hasIncompleteData

C9_Witness ==
    /\ op = "checkFields" /\ Len(output) = 1
    /\ input["name"] = <<"P">>
    /\ \A k \in DOMAIN input \ {"name"} : input[k] = <<"null">>
    /\ output[1].missingFields = <<"image", "brand", "description", "price">>

\* C10 as stated: every text with a character that is not a digit fails with
\* the only-numbers error.
C10_AsStated ==
    (op = "validateBarcode" /\ Len(output) = 1 /\ input # <<"null">>
        /\ \E i \in 1..Len(input) : input[i] \notin Digits) =>
        output[1].error = "numeric"

\* C10: with t the text without its leading and trailing spaces: when t has
\* between 8 and 14 characters one of which is not a digit, validateBarcode
\* fails with the only-numbers error; when t holds a non-digit and is shorter
\* than 8 or longer than 14, it fails with the length error; when t is empty
\* it fails with the empty (or, for "", the required) error; and a text
\* whose only non-digits are the spaces around 8 to 14 digits is valid.
C10_NonNumeric ==
    (op = "validateBarcode" /\ Len(output) = 1 /\ input # <<"null">>) =>
        LET inner == {i \in 1..Len(input) : input[i] # " "}
            lo == CHOOSE i \in inner : \A j \in inner : i <= j
            hi == CHOOSE i \in inner : \A j \in inner : i >= j
            size == IF inner = {} THEN 0 ELSE hi - lo + 1
            nonDigit == inner # {} /\ \E i \in lo..hi : input[i] \notin Digits
        IN /\ (nonDigit /\ size >= 8 /\ size <= 14) => output[1].error = "numeric"
           /\ (nonDigit /\ (size < 8 \/ size > 14)) => output[1].error = "length"
           /\ size = 0 => output[1].error \in {"empty", "required"}
           /\ (~nonDigit /\ size >= 8 /\ size <= 14) =>
                output[1].valid /\ Len(output[1].value) = size

C10_Witness ==
    /\ op = "validateBarcode" /\ Len(output) = 1
    /\ Len(input) = 12 /\ input[1] = " " /\ input[5] = "a"
    /\ output[1].error = "numeric"

\* C11 as stated: every text shorter than 8 or longer than 14 characters
\* fails with the length error.
C11_AsStated ==
    (op = "validateBarcode" /\ Len(output) >= 1 /\ input # <<"null">>
        /\ (Len(input) < 8 \/ Len(input) > 14)) =>
        output[1].error = "length"

\* C11: with t the text without its leading and trailing spaces,
\* validateBarcode fails with the length error exactly when t has 1 to 7 or
\* more than 14 characters, whatever the characters are; a text whose t is
\* empty fails with another error and a text whose t has 8 to 14 characters
\* never fails with the length error, however long the text itself is.
C11_LengthOutOfRange ==
    (op = "validateBarcode" /\ Len(output) >= 1 /\ input # <<"null">>) =>
        LET inner == {i \in 1..Len(input) : input[i] # " "}
            lo == CHOOSE i \in inner : \A j \in inner : i <= j
            hi == CHOOSE i \in inner : \A j \in inner : i >= j
            size == IF inner = {} THEN 0 ELSE hi - lo + 1
        IN output[1].error = "length" <=> ((size >= 1 /\ size < 8) \/ size > 14)

C11_Witness ==
    /\ op = "validateBarcode" /\ Len(output) = 1
    /\ Len(input) = 9 /\ input[1] = " " /\ input[9] = " " /\ input[2] = "7"
    /\ output[1].error = "length"

\* C12: a text that is empty or holds nothing but spaces is never valid: the
\* empty text fails with the required error and a text of spaces with the
\* cannot-be-empty error, and no other text fails with either.
C12_EmptyInput ==
    (op = "validateBarcode" /\ Len(output) >= 1 /\ input # <<"null">>) =>
        LET blank == \A i \in 1..Len(input) : input[i] = " "
        IN /\ blank => ~output[1].valid
           /\ (blank /\ Len(input) = 0) => output[1].error = "required"
           /\ (blank /\ Len(input) > 0) => output[1].error = "empty"
           /\ ~blank => output[1].error \notin {"required", "empty"}

C12_Witness ==
    /\ op = "validateBarcode" /\ Len(output) = 1
    /\ Len(input) = 2 /\ input[1] = " " /\ input[2] = " "
    /\ output[1].error = "empty"

\* C13: a text of 8 to 14 digits is valid and its value is the text itself;
\* a text of 8 to 14 digits between spaces is valid and its value is the
\* digits without the spaces; validating the value of a valid text again
\* gives the same result.
C13_ValidUnchanged ==
    (op = "validateBarcode" /\ Len(output) >= 1 /\ input # <<"null">>) =>
        LET digits == {i \in 1..Len(input) : input[i] \in Digits}
            spaces == {i \in 1..Len(input) : input[i] = " "}
            n == Cardinality(digits)
            padded == /\ digits \cup spaces = 1..Len(input)
                      /\ n >= 8 /\ n <= 14
                      /\ \A i \in digits, j \in digits, k \in spaces : ~(i < k /\ k < j)
        IN /\ padded =>
                /\ output[1].valid
                /\ output[1].value = SelectSeq(input, LAMBDA c : c # " ")
           /\ (padded /\ spaces = {}) => output[1].value = input
           /\ Len(output) = 2 => output[2] = output[1]

C13_Witness ==
    /\ op = "validateBarcode" /\ Len(output) = 2
    /\ Len(input) = 10 /\ input[1] = " " /\ input[10] = " "
    /\ output[2].valid /\ Len(output[2].value) = 8

----------------------------------------------------------------------------
(* Claims about fetchProductByBarcode, continued (checked under Spec) *)

\* C14 as stated: without the API key every invocation ends rejected with the
\* configuration error and no request has been issued to any source.
C14_AsStated ==
    (~apiKey /\ pc = "done") =>
        /\ result.status = "rejected"
        /\ result.error.kind = "apiKeyMissing"
        /\ \A s \in Sources : calls[s] = 0

\* C14: without the API key, version A ends at once, rejected with the
\* configuration error, before the format check and before any request, with
\* no retry and no fallback.  Version B still sends one keyless request to the
\* Barcode Lookup proxy and may resolve from it; it never calls Big Product
\* Data or the fallback, never reports the configuration error, and for a
\* well-formed barcode rejects with "product not found".
C14_MissingKey ==
    ~apiKey =>
        /\ (variant = "A" /\ pc # "idle") =>
                /\ pc = "done" /\ attempt = 0
                /\ result.status = "rejected"
                /\ result.error.kind = "apiKeyMissing"
                /\ \A s \in Sources : calls[s] = 0
        /\ variant = "B" =>
                /\ calls["bigProductData"] = 0 /\ calls["barcodesLookup"] = 0
                /\ calls["barcodeLookup"] <= 1
                /\ result.error.kind # "apiKeyMissing"
                /\ (pc = "done" /\ IsGtinFormat(barcode)) =>
                        /\ calls["barcodeLookup"] = 1
                        /\ result.status = "rejected" => result.error.kind = "productNotFound"

C14_Witness ==
    /\ ~apiKey /\ variant = "A" /\ pc = "done" /\ ~IsGtinFormat(barcode)
    /\ result.error.kind = "apiKeyMissing"

\* C16: within one invocation at most one request is in flight at any time,
\* and while a request to a source is in flight every source before it in the
\* priority order has been called and has no request outstanding; a source
\* outside the order is never called.
C16_OneAtATime ==
    LET p == Priority(variant)
    IN /\ \A s \in Sources : InFlight(s) \in {0, 1}
       /\ Cardinality({s \in Sources : InFlight(s) = 1}) <= 1
       /\ \A s \in Sources : ~InSeq(s, p) => calls[s] = 0
       /\ \A j \in 1..Len(p) : calls[p[j]] > 0 =>
               \A i \in 1..(j - 1) : calls[p[i]] > 0 /\ (InFlight(p[j]) = 1 => InFlight(p[i]) = 0)

C16_Witness ==
    /\ variant = "B"
    /\ InFlight("barcodesLookup") = 1
    /\ settled["barcodeLookup"] = 1 /\ settled["bigProductData"] = 1

WidgetLookup ==
    fetchFromBarcodeLookupAPI(OkResponse, [shape |-> "product", body |-> WidgetProduct], barcode)

\* the first source has answered the Widget object
WidgetFromSourceOne ==
    \/ /\ variant = "B" /\ last.source = "barcodeLookup" /\ last.kind = "ok"
       /\ primaryData = WidgetLookup.data
    \/ /\ variant = "A" /\ last.source = "bigProductData" /\ last.kind = "ok"
       /\ normalizedData = WidgetFlat

\* the invocation has resolved with the Widget product of the scenario
WidgetReturned ==
    /\ pc = "done" /\ result.status = "resolved"
    /\ result.product.data["name"] = <<"Widget">>
    /\ result.product.data["image"] = <<"http://x/1.jpg">>
    /\ result.product.hasMeta
    /\ \A f \in {"brand", "description", "price"} : InSeq(f, result.product.missingFields)
    /\ result.product.hasIncompleteData

\* C19 as stated: for barcode 850028009338, once the first source has
\* answered { title: "Widget", images: ["http://x/1.jpg"] }, the invocation
\* has resolved with name Widget, that image, brand, description and price
\* missing and hasIncompleteData set, and only the first source was called.
C19_AsStated ==
    (IsGtinFormat(barcode) /\ WidgetFromSourceOne) =>
        /\ WidgetReturned
        /\ \A s \in Sources : calls[s] = IF s = Priority(variant)[1] THEN 1 ELSE 0

\* C19: in version B, for barcode 850028009338, once the Barcode Lookup
\* proxy has answered with the first product { title: "Widget", images:
\* ["http://x/1.jpg"] }, the invocation has resolved with name Widget, that
\* image, the scanned barcode as gtin, missingFields brand, description,
\* price, and hasIncompleteData set, and no other source was called.  In
\* version A the same object from Big Product Data is kept as it is, has no
\* identifier or name, and the fallback is called: the Widget product is
\* not returned.
C19_Widget ==
    IsGtinFormat(barcode) =>
        /\ (variant = "B" /\ WidgetFromSourceOne) =>
                /\ WidgetReturned
                /\ result.product.data["gtin"] = barcode
                /\ result.product.missingFields = <<"brand", "description", "price">>
                /\ result.product.availableFields = <<"name", "image">>
                /\ calls = [s \in Sources |-> IF s = "barcodeLookup" THEN 1 ELSE 0]
        /\ (variant = "A" /\ WidgetFromSourceOne) =>
                /\ calls["barcodesLookup"] >= 1
                /\ ~WidgetReturned

C19_Witness ==
    /\ variant = "B" /\ IsGtinFormat(barcode)
    /\ WidgetFromSourceOne /\ WidgetReturned
    /\ calls["bigProductData"] = 0 /\ calls["barcodesLookup"] = 0

----------------------------------------------------------------------------
(* Claims about one request, checked under SpecT *)

\* C15 as stated: as long as a request is outstanding (its response has not
\* been received in full) its timer is armed, so that no request is still
\* outstanding once more than the timeout has elapsed.
C15_AsStated ==
    phase \in {"pending", "body"} =>
        /\ timer = "armed"
        /\ clock < REQUEST_TIMEOUT + TickMs

----------------------------------------------------------------------------
(* Claims about the App component, checked under SpecApp *)

\* C20 as stated: when Retry is activated on the error of a rejected lookup,
\* fetchProductByBarcode is called once more, with the barcode of that
\* lookup.
C20_AsStated ==
    (event.name = "retry" /\ event.shown # <<>> /\ event.shown[1].from = "lookup") =>
        /\ Len(lookups) = event.n + 1
        /\ lookups[Len(lookups)].barcode = event.shown[1].code

\* C21 as stated: once at least two lookups were started and all have
\* settled, the App shows the outcome of the lookup started last and nothing
\* of an earlier one: its product and no lookup error if it resolved, its
\* error and no product if it was rejected.
C21_AsStated ==
    (/\ Len(lookups) >= 2
     /\ \A i \in 1..Len(lookups) : lookups[i].state # "pending"
     /\ event.name = "settle") =>
        LET newest == lookups[Len(lookups)]
        IN IF newest.state = "resolved"
           THEN /\ productData = <<[gtin |-> newest.barcode]>>
                /\ appError = <<>> \/ appError[1].from = "validation"
           ELSE /\ productData = <<>>
                /\ appError # <<>>
                /\ appError[1].from = "lookup" => appError[1].index = Len(lookups)

----------------------------------------------------------------------------
(* Claims about the helpers, continued (checked under SpecF) *)

\* C22: for any two records such that no field mergeProductData assigns is
\* populated (neither null nor "") in both, merging them in either order
\* gives the same value for every one of those fields.
C22_CommutativeWithoutConflict ==
    (/\ op = "mergeProductData" /\ Len(output) = 2
     /\ \A k \in MergedKeys : ~(Truthy(input[1][k]) /\ Truthy(input[2][k]))) =>
        \A k \in MergedKeys : output[1][k] = output[2][k]

C22_Witness ==
    /\ op = "mergeProductData" /\ Len(output) = 2
    /\ input[1]["name"] = <<"P">> /\ input[2]["brand"] = <<"F">>
    /\ output[1]["name"] = <<"P">> /\ output[2]["name"] = <<"P">>
    /\ output[1]["brand"] = <<"F">> /\ output[2]["brand"] = <<"F">>

\* the first of the values that is not null, or null
FirstNonNull(values) ==
    LET hits == SelectSeq(values, LAMBDA v : v # Null)
    IN IF hits = <<>> THEN Null ELSE hits[1]

\* the first of the values that is neither null nor "", or null
FirstTruthy(values) ==
    LET hits == SelectSeq(values, LAMBDA v : Truthy(v))
    IN IF hits = <<>> THEN Null ELSE hits[1]

\* a normalizer has been applied to a body of the given provider shape
Normalized(f, shape) ==
    op = f /\ Len(output) = 1 /\ input.shape = shape /\ ~output[1].isNull

\* C23 as stated: each of the three normalizers sets name to the first
\* non-null of title, name, product_name of the body, in that order.
C23_AsStated ==
    /\ \A f \in {"normalizeFallbackData", "normalizeBarcodeLookupData"} :
            Normalized(f, "product") =>
                output[1].data["name"] =
                    FirstNonNull(<<input.body["title"], input.body["name"],
                                   input.body["product_name"]>>)
    /\ Normalized("normalizeProductData", "flat") =>
            output[1].data["name"] =
                FirstNonNull(<<input.body["title"], input.body["name"],
                               input.body["product_name"]>>)

\* C23: normalizeFallbackData sets name (and its aliases product_name and
\* title) to the first of title, name, product_name that is neither null
\* nor "", in that order; normalizeBarcodeLookupData takes them in the order
\* title, product_name, name; normalizeProductData takes the first title of
\* a { gtin, properties } body and nothing else, and leaves a body of
\* another shape as it is.
C23_NameCandidates ==
    /\ Normalized("normalizeFallbackData", "product") =>
            \A k \in NameKeys :
                output[1].data[k] =
                    FirstTruthy(<<input.body["title"], input.body["name"],
                                  input.body["product_name"]>>)
    /\ Normalized("normalizeBarcodeLookupData", "product") =>
            \A k \in NameKeys :
                output[1].data[k] =
                    FirstTruthy(<<input.body["title"], input.body["product_name"],
                                  input.body["name"]>>)
    /\ Normalized("normalizeProductData", "structured") =>
            \A k \in NameKeys : output[1].data[k] = input.body["title"]
    /\ Normalized("normalizeProductData", "flat") =>
            \A k \in NameKeys : output[1].data[k] = input.body[k]

C23_Witness ==
    /\ Normalized("normalizeFallbackData", "product")
    /\ input.body["title"] = Empty
    /\ input.body["name"] = <<"name">>
    /\ input.body["product_name"] = <<"product_name">>
    /\ output[1].data["name"] = <<"name">>

\* C24 as stated: the price of a normalized { gtin, properties, stores }
\* body is the first populated of the sale price, the list price and the
\* plain price of the first store, in that order.
C24_AsStated ==
    Normalized("normalizeProductData", "structured") =>
        output[1].data["price"] =
            FirstTruthy(<<input.body["price_sale"], input.body["price_list"],
                          input.body["price_price"]>>)

\* C24: normalizeProductData takes, from the price object of the first
\* store, the plain price if it is populated, else the sale price if that is
\* populated, else the list price whatever it holds; normalizeFallbackData
\* takes the first populated of the first online store's price, price and
\* price_amount; normalizeBarcodeLookupData the first populated of price
\* and price_amount.  price_amount is always the same value as price.
C24_PricePriority ==
    /\ Normalized("normalizeProductData", "structured") =>
            /\ output[1].data["price"] =
                    IF Truthy(input.body["price_price"]) THEN input.body["price_price"]
                    ELSE IF Truthy(input.body["price_sale"]) THEN input.body["price_sale"]
                    ELSE input.body["price_list"]
            /\ output[1].data["price_amount"] = output[1].data["price"]
    /\ Normalized("normalizeFallbackData", "product") =>
            /\ output[1].data["price"] =
                    FirstTruthy(<<input.body["store_price"], input.body["price"],
                                  input.body["price_amount"]>>)
            /\ output[1].data["price_amount"] = output[1].data["price"]
    /\ Normalized("normalizeBarcodeLookupData", "product") =>
            /\ output[1].data["price"] =
                    FirstTruthy(<<input.body["price"], input.body["price_amount"]>>)
            /\ output[1].data["price_amount"] = output[1].data["price"]

C24_Witness ==
    /\ Normalized("normalizeProductData", "structured")
    /\ input.body["price_price"] = <<"price_price">>
    /\ input.body["price_sale"] = <<"price_sale">>
    /\ input.body["price_list"] = <<"price_list">>
    /\ output[1].data["price"] = <<"price_price">>

\* the four barcode aliases of a product record
GtinAliases == {"gtin", "gtin13", "gtin14", "upc"}

\* all four aliases of record d are populated and hold one value
Aliased(d) ==
    /\ \A k \in GtinAliases : Truthy(d[k])
    /\ \A k \in GtinAliases : d[k] = d["gtin"]

\* C25 as stated: in every product fetchProductByBarcode resolves with, the
\* aliases gtin, gtin13, gtin14 and upc are all populated and equal.
C25_AsStated ==
    (pc = "done" /\ result.status = "resolved") => Aliased(result.product.data)

\* C25: in a product fetchProductByBarcode resolves with, gtin, gtin13,
\* gtin14 and upc are all populated and equal, unless the Big Product Data
\* body was an object of another shape than { gtin, properties, stores }:
\* that body is passed on as it is, and the product carries, also after a
\* merge, exactly the aliases the body had.
C25_AliasesUnlessUnrecognized ==
    (pc = "done" /\ result.status = "resolved") =>
        \/ Aliased(result.product.data)
        \/ /\ calls["bigProductData"] >= 1
           /\ ~Aliased(normalizedData)
           /\ \A k \in GtinAliases : result.product.data[k] = normalizedData[k]

\* a merged product of a { gtin, properties, stores } body: the aliases are
\* those of the body, a name or image came from the fallback
C25_Witness ==
    /\ pc = "done" /\ result.status = "resolved" /\ variant = "A"
    /\ calls["barcodesLookup"] >= 1
    /\ Aliased(normalizedData)
    /\ result.product.data # normalizedData
    /\ result.product.data = mergeProductData(normalizedData, fallbackData)
    /\ Aliased(result.product.data)

RECURSIVE SumSeq(_)
SumSeq(s) == IF s = <<>> THEN 0 ELSE s[1] + SumSeq(Tail(s))

C27_InvalidInputNoCall ==
    /\ \A i \in 1..Len(lookups) :
            /\ validateBarcode(lookups[i].barcode).valid
            /\ IsGtinFormat(lookups[i].barcode)
    /\ (event.name = "scan" /\ appError # <<>> /\ appError[1].from = "validation") =>
            /\ ~validateBarcode(appError[1].code).valid
            /\ Len(lookups) = event.n
            /\ ~loading
    /\ (~IsGtinFormat(barcode) /\ pc # "idle") =>
            /\ pc = "done" /\ result.status = "rejected"
            /\ result.error.kind \in {"invalidFormat", "apiKeyMissing"}
            /\ (apiKey \/ variant = "B") => result.error.kind = "invalidFormat"
            /\ \A s \in Sources : calls[s] = 0
            /\ attempt = 0 /\ backoff = <<>>

\* an invalid text was scanned after a lookup had been started, and a direct
\* call with an invalid barcode was rejected for its format
C27_Witness ==
    /\ event.name = "scan" /\ appError # <<>> /\ appError[1].from = "validation"
    /\ event.n = 1 /\ Len(lookups) = 1
    /\ ~IsGtinFormat(barcode) /\ pc = "done"
    /\ result.error.kind = "invalidFormat"

\* C28: with every request settling, an invocation of fetchProductByBarcode
\* eventually resolves or rejects, and at no time has it issued more than
\* 3 (retries + 1) requests to any one source.
C28_SettlesWithinThreeCalls ==
    /\ <>(pc = "done" /\ result.status \in {"resolved", "rejected"})
    /\ [](\A s \in Sources : calls[s] <= retries + 1)

\* an invocation that settled after three requests to the primary source
\* and three to the fallback
C28_Witness ==
    /\ pc = "done" /\ result.status = "rejected"
    /\ calls["bigProductData"] = 3 /\ calls["barcodesLookup"] = 3
    /\ \A s \in Sources : settled[s] = calls[s]

\* the request that settled last went to the fallback of version A or
\* step 3 of version B and brought no usable record: it timed out, the
\* transport failed, the status was not 2xx, or the payload had nothing
FallbackFailed ==
    /\ last.source = "barcodesLookup"
    /\ last.kind # "ok" \/ fallbackData = NoProduct

\* C29: when Big Product Data returned a record with an identifier or a
\* name and the fallback request made after it fails in any way, the
\* invocation resolves with that record and the metadata computed from it
\* alone; it is not rejected.
C29_PrimaryKeptOnFallbackFailure ==
    (pc = "done" /\ HasIdentifierOrName(normalizedData) /\ FallbackFailed) =>
        /\ result.status = "resolved"
        /\ result = Resolved(WithMeta(normalizedData))
        /\ result.product.missingFields = checkMissingFields(normalizedData)

\* the fallback timed out after a primary record with an identifier and no
\* image; the record came back with its image reported missing
C29_Witness ==
    /\ pc = "done" /\ variant = "A"
    /\ Truthy(normalizedData["gtin"])
    /\ last = [source |-> "barcodesLookup", kind |-> "timeout", status |-> 0]
    /\ result.status = "resolved"
    /\ result.product.data = normalizedData
    /\ InSeq("image", result.product.missingFields)

\* a step in which a Big Product Data request settles with a 2xx JSON body
\* and the iteration goes on with the record made of it (it is neither
\* rejected nor sent to the catch block)
PrimaryRecordStep ==
    /\ pc = "awaitPrimary" /\ pc' # pc
    /\ last'.source = "bigProductData" /\ last'.kind = "ok"
    /\ variant = "A" => (pc' # "callPrimary" /\ result'.status # "rejected")

\* the step issues a request to the fallback source
FallbackConsulted == calls'["barcodesLookup"] = calls["barcodesLookup"] + 1

\* the record lacks a name or an image, or has neither identifier nor name
LacksCritical(data) ==
    \/ InSeq("name", checkMissingFields(data))
    \/ InSeq("image", checkMissingFields(data))
    \/ ~HasIdentifierOrName(data)

C31_AsStated == ~(productData # <<>> /\ appError # <<>>)

\* C32 as stated: while a lookup started by handleBarcodeScanned is
\* unsettled, loading is true.
C32_AsStated ==
    (\E i \in 1..Len(lookups) : lookups[i].state = "pending") => loading

----------------------------------------------------------------------------
(* Claims about the scanner component, checked under SpecScan *)

\* C33 as stated: between one successful start and the next, the decode
\* callback calls onScan at most once.
C33_AsStated == sessionScans <= 1

\* C34 as stated: at most one instance is started and not stopped.
C34_AsStated ==
    Cardinality({i \in 1..Len(instances) : instances[i] = "started"}) <= 1

\* C35 as stated: there is no state in which scanning is false, the
\* reference is null and an instance is started with stop() never called.
C35_AsStated ==
    ~(/\ ~scanning /\ html5QrCodeRef = 0
      /\ \E i \in 1..Len(instances) : instances[i] = "started")

----------------------------------------------------------------------------
(* Claims about the proxy handler, checked under SpecProxy *)

\* C36: the handler makes an upstream request only for a GET whose barcode
\* parameter is 8 to 14 digits; it answers OPTIONS with 200, any other
\* method but GET with 405, and a GET with a missing or malformed barcode
\* with 400, each without an upstream request; it never sends more than one
\* response and has sent exactly one when it ends, also when the upstream
\* request fails.
C36_ProxyContract ==
    /\ Len(responses) <= 1 /\ upstreamCalls <= 1
    /\ upstreamCalls = 1 => (req.method = "GET" /\ IsGtinFormat(req.barcode))
    /\ proxyPc = "awaitUpstream" => (responses = <<>> /\ upstreamCalls = 1)
    /\ proxyPc = "done" =>
            /\ Len(responses) = 1
            /\ req.method = "OPTIONS" => (responses = <<200>> /\ upstreamCalls = 0)
            /\ req.method \notin {"GET", "OPTIONS"} =>
                    (responses = <<405>> /\ upstreamCalls = 0)
            /\ (req.method = "GET" /\ ~IsGtinFormat(req.barcode)) =>
                    (responses = <<400>> /\ upstreamCalls = 0)
            /\ (req.method = "GET" /\ IsGtinFormat(req.barcode)) => upstreamCalls = 1

\* a GET for a well-formed barcode whose upstream request failed was
\* answered once, with 500
C36_Witness ==
    /\ proxyPc = "done" /\ req.method = "GET" /\ IsGtinFormat(req.barcode)
    /\ upstreamCalls = 1 /\ responses = <<500>>

\* C37: the validator and the format test at the head of fetchProductByBarcode
\* accept the same trimmed texts, and the value of a successful validation,
\* which is the trimmed text, passes the format test; a cleaned scan of 6, 7
\* or 15 digits is forwarded by the decode callback and is rejected by the
\* validator for its length, one of 8 to 14 digits is forwarded and accepted.
C37_SameAcceptedSet ==
    /\ (op = "formatCheck" /\ Len(output) = 1) =>
          /\ output[1].ofTrimmed.valid <=> output[1].format
          /\ output[1].validation.valid <=> output[1].format
          /\ output[1].validation.valid =>
                output[1].passes /\ output[1].validation.value = Trim(input)
    /\ (op = "decodeCallback" /\ Len(output) = 1) =>
          /\ Len(output[1].text) \in {6, 7, 15} =>
                /\ output[1].forwarded
                /\ ~output[1].validation.valid
                /\ output[1].validation.error = "length"
          /\ (output[1].forwarded /\ Len(output[1].text) \notin {6, 7, 15}) =>
                output[1].validation.valid

C37_Witness ==
    /\ op = "formatCheck" /\ Len(output) = 1
    /\ input # Trim(input)
    /\ Len(Trim(input)) = 14
    /\ output[1].validation.valid /\ output[1].passes

====
